---------------------------- MODULE Spec2Model ----------------------------
(***************************************************************************)
(* Async Doctor: the runtime tracer (hook.ts), the trace/finding           *)
(* correlator, the report merger and the job routes (server.ts), the       *)
(* analyzer command line (cli/src/index.ts) and its rules (cli/src/rules). *)
(*                                                                         *)
(* Six specifications share the module:                                    *)
(*   SpecTracer     the async_hooks callbacks, the clock, flush and the    *)
(*                  process termination hooks of the tracer;               *)
(*   SpecCapture    captureLocation over call stacks;                      *)
(*   SpecCorrelate  crossReference and mergeReportWithExec over reports    *)
(*                  and event lists;                                       *)
(*   SpecJobs       the routes working on one job directory;               *)
(*   SpecCli        the analyze and fix commands over a project;           *)
(*   SpecRules      the rule listeners over syntax-tree nodes.             *)
(* Each specification keeps the variables of the others at rest.           *)
(***************************************************************************)
EXTENDS Integers, Sequences, FiniteSets, TLC

VARIABLES
  \* ---- tracer (hook.ts) ----
  clock,        \* performance.now(), whole milliseconds
  t0,           \* performance.now() sampled when the tracer module loads
  events,       \* Map<number, PromiseEvent>: asyncId -> event
  nextAsyncId,  \* the runtime's async id counter (ids are never reused)
  pc,           \* "running" | "beforeExit" | "exited"
  pendingWork,  \* handles the host program still has in its event loop
  hostListens,  \* signals the host program has its own listener for
  exitCause,    \* "none" | "loopEmpty" | "hostExit" | "tracerExit"
  exitCode,     \* the process exit code (Undefined while running)
  traceFile,    \* content of OUT_PATH: NoFile or the written array
  firstTrace,   \* content the first successful write produced
  writes,       \* successful writes of OUT_PATH so far
  flushCalls,   \* calls of flush so far
  ioFailed,     \* some mkdirSync / writeFileSync inside flush has thrown
  propagated,   \* an exception has left flush into the exit path
  failLogged,   \* the "failed to write trace" line was printed
  lateCb,       \* a promiseResolve/destroy callback found end already set
  \* ---- captureLocation (hook.ts) ----
  stack,        \* the frames of err.stack below the "Error" line
  captured,     \* result of the last captureLocation() call on stack
  \* ---- correlator / merger (server.ts) ----
  report,       \* the static report: [findings |-> <<...>>]
  traceEvents,  \* the uploaded trace's events
  overlay,      \* the last crossReference result
  usedOverlay,  \* the overlay handed to the last mergeReportWithExec
  reportBefore, \* the static report as it was before the last merge
  merged,       \* result of the last mergeReportWithExec
  merges,       \* mergeReportWithExec calls so far
  otherBefore,  \* an earlier merge was handed another overlay than the last
  \* ---- job routes (server.ts) ----
  antiPatterns, \* jobs/<id>/anti-patterns.json
  executions,   \* jobs/<id>/executions.json
  jobDir,       \* the directory jobs/<id> exists
  projectExists,\* jobs/<id>/project, the analysed sources, exists
  analyses,     \* runAnalysis calls made for the job so far
  response,     \* the response to the last request
  lastOp,       \* "analyze" | "upload" | "report" | "fix" | "delete"
  lastUpload,   \* name and content of the last uploaded trace file
  lastAnalysis, \* the report the most recent analysis run returned
  lastOverlay,  \* the overlay the most recent successful upload derived
  okUploads,    \* trace uploads answered with status 200 so far
  overlayAnalysis, \* the analysis run (value of analyses) whose report the
                   \* stored executions.json was correlated against, 0: none
  jobOps,       \* requests served so far
  \* ---- analyzer command line (cli/src/index.ts) ----
  project,      \* the target directory: file name -> source
  enumeration,  \* the order in which walk() pushed the files, last run
  pushed,       \* results as pushed by the last run, before the sort
  results,      \* what the last runAnalysis returned
  verified,     \* files the last run handed to linter.verify
  threw,        \* "" or what made the last runAnalysis throw
  command,      \* "none" | "analyze" | "fix", the last command run
  cliExit,      \* exit code of the last command
  cliCause,     \* why the last command ended as it did
  reportFile,   \* anti-patterns.json in the target directory
  \* ---- rule listeners (cli/src/rules) ----
  visited,      \* the node the last listener call was made for
  reports,      \* the context.report calls that listener call made
  \* ---- AI fix requests (server.ts) ----
  targetFile,   \* the source file the fixes are applied to (absFile)
  backupFile,   \* absFile + '.bak'
  fileWrites,   \* writes of absFile by replaceFunctionInFile so far
  requests      \* the POST /jobs/:jobId/ai/fix requests: request -> state

tracerVars == <<clock, t0, events, nextAsyncId, pc, pendingWork, hostListens,
                exitCause, exitCode, traceFile, firstTrace, writes,
                flushCalls, ioFailed, propagated, failLogged, lateCb>>
captureVars == <<stack, captured>>
correlateVars == <<report, traceEvents, overlay, usedOverlay, reportBefore,
                   merged, merges, otherBefore>>
jobVars == <<antiPatterns, executions, jobDir, projectExists, analyses, response,
             lastOp, lastUpload, lastAnalysis, lastOverlay, okUploads,
             overlayAnalysis, jobOps>>
cliVars == <<project, enumeration, pushed, results, verified, threw, command,
             cliExit, cliCause, reportFile>>
ruleVars == <<visited, reports>>
fixVars == <<targetFile, backupFile, fileWrites, requests>>
vars == <<tracerVars, captureVars, correlateVars, jobVars, cliVars, ruleVars,
          fixVars>>

(***************************************************************************)
(* Bounds of the model.                                                    *)
(***************************************************************************)
MaxAsyncIds == 1
MaxTicks == 1
LoadTime == 1
MaxBeforeExit == 1
MaxStack == 3
MaxFindings == 2
MaxEvents == 1
MaxMerges == 2

\* JavaScript's undefined for a number-valued field (timestamps are >= 0).
Undefined == -1


(***************************************************************************)
(* Stack frames.  A line of err.stack, "    at fn (path:line:col)", is     *)
(* kept as its words: fn is the dot-separated words of the function name,  *)
(* segs the path's segments (each its dot-separated words), abs whether    *)
(* the path starts with "/".  A location "/a/b.js:1:2" is [segs,line,col]. *)
(***************************************************************************)
Frame(fn, abs, segs, line, col) ==
  [fn |-> fn, abs |-> abs, segs |-> segs, line |-> line, col |-> col]

\* const CWD = process.cwd(): the project root, "/proj"
CWD == << <<"proj">> >>

NoLoc == [segs |-> <<>>, line |-> 0, col |-> 0]

F_internal == Frame(<<"processTicksAndRejections">>, FALSE,
                    << <<"node:internal">>, <<"process">>, <<"task_queues">> >>, 95, 5)
F_tracer   == Frame(<<"captureLocation">>, TRUE,
                    << <<"opt">>, <<"tracer">>, <<"dist">>, <<"hook", "js">> >>, 53, 17)
F_anon     == Frame(<<"new", "Promise">>, FALSE, << <<"anonymous">> >>, 0, 0)
F_user     == Frame(<<"main">>, TRUE, << <<"proj">>, <<"src">>, <<"app", "js">> >>, 10, 3)
F_user2    == Frame(<<"run">>, TRUE, << <<"proj">>, <<"src">>, <<"job", "js">> >>, 20, 5)
F_dep      == Frame(<<"get">>, TRUE,
                    << <<"proj">>, <<"node_modules">>, <<"axios">>, <<"index", "js">> >>, 5, 1)
F_extdep   == Frame(<<"helper">>, TRUE,
                    << <<"usr">>, <<"node_modules">>, <<"tool">>, <<"x", "js">> >>, 7, 2)
F_userio   == Frame(<<"send">>, TRUE,
                    << <<"proj">>, <<"src">>, <<"http">>, <<"client", "js">> >>, 3, 9)
F_extio    == Frame(<<"fs", "readFile">>, TRUE, << <<"srv">>, <<"io", "js">> >>, 8, 4)

Frames == {F_internal, F_tracer, F_anon, F_user, F_user2, F_dep, F_extdep,
           F_userio, F_extio}

\* every word of the line's text
LineWords(line) ==
  {line.fn[i] : i \in 1..Len(line.fn)} \cup
  UNION {{line.segs[i][j] : j \in 1..Len(line.segs[i])} : i \in 1..Len(line.segs)}

\* line.includes(a + "/" + b), a and b single words
IncludesPair(line, a, b) ==
  \E i \in 1..(Len(line.segs) - 1) :
    /\ line.segs[i][Len(line.segs[i])] = a
    /\ line.segs[i + 1][1] = b

isInternalFrame(line) ==
  \/ "node:internal" \in LineWords(line)
  \/ (~line.abs /\ Len(line.segs) >= 2 /\ line.segs[1] = <<"internal">>)
  \/ IncludesPair(line, "internal", "process")
  \/ IncludesPair(line, "internal", "modules")
  \/ \E i \in 1..Len(line.segs) : \E j \in 1..(Len(line.segs[i]) - 1) :
       line.segs[i][j] = "async_hooks" /\ line.segs[i][j + 1] = "js"

\* norm.includes("/" + a + "/" + b + "/")
IncludesDir(line, a, b) ==
  \E i \in 1..(Len(line.segs) - 2) :
    /\ (line.abs \/ i > 1)
    /\ line.segs[i] = <<a>>
    /\ line.segs[i + 1] = <<b>>

\* norm.includes("/hook." + ext)
IncludesHook(line, ext) ==
  \E i \in 1..Len(line.segs) :
    /\ (line.abs \/ i > 1)
    /\ Len(line.segs[i]) >= 2
    /\ line.segs[i][1] = "hook"
    /\ line.segs[i][2] = ext

isTracerFrame(line) ==
  \/ IncludesDir(line, "tracer", "dist")
  \/ IncludesDir(line, "tracer", "src")
  \/ IncludesHook(line, "js")
  \/ IncludesHook(line, "ts")
  \/ "captureLocation" \in LineWords(line)

\* The pattern is not anchored on the left: it matches from the first "/"
\* of the line up to ":line:col" at its end.
extractFileLoc(line) ==
  IF line.abs
    THEN [segs |-> line.segs, line |-> line.line, col |-> line.col]
    ELSE IF Len(line.segs) >= 2
      THEN [segs |-> Tail(line.segs), line |-> line.line, col |-> line.col]
      ELSE NoLoc

IOWords == {"fs", "http", "https", "net", "dns", "dgram"}

\* loc.includes("/node_modules/")
InNodeModules(loc) ==
  \E i \in 1..(Len(loc.segs) - 1) : loc.segs[i] = <<"node_modules">>

\* s is a prefix of t (sequences of words)
IsPrefix(s, t) == Len(s) <= Len(t) /\ SubSeq(t, 1, Len(s)) = s

\* loc.startsWith(CWD): a prefix of the text, so the last segment of CWD
\* need only be a prefix of the segment of loc at its place
StartsWithCwd(loc) ==
  /\ Len(loc.segs) >= Len(CWD)
  /\ \A i \in 1..(Len(CWD) - 1) : loc.segs[i] = CWD[i]
  /\ IsPrefix(CWD[Len(CWD)], loc.segs[Len(CWD)])

\* captureLocation always passes a location and the frame's text, so the
\* first test (!loc && !fullLine) never applies
classifyOrigin(loc, fullLine) ==
  IF InNodeModules(loc) THEN "library"
  ELSE IF LineWords(fullLine) \cap IOWords # {} THEN "io"
  ELSE IF StartsWithCwd(loc) THEN "user"
  ELSE "library"

\* the for loop of captureLocation, from line i on
RECURSIVE ScanLines(_, _, _, _)
ScanLines(lines, i, chosenLoc, chosenOrigin) ==
  IF i > Len(lines) THEN [location |-> chosenLoc, origin |-> chosenOrigin]
  ELSE IF isInternalFrame(lines[i]) \/ isTracerFrame(lines[i])
    THEN ScanLines(lines, i + 1, chosenLoc, chosenOrigin)
  ELSE LET loc == extractFileLoc(lines[i]) IN
    IF loc = NoLoc THEN ScanLines(lines, i + 1, chosenLoc, chosenOrigin)
    ELSE LET first == IF chosenLoc = NoLoc THEN loc ELSE chosenLoc
             firstOrigin == IF chosenLoc = NoLoc
                              THEN classifyOrigin(loc, lines[i])
                              ELSE chosenOrigin
         IN IF StartsWithCwd(loc)
              THEN [location |-> loc, origin |-> classifyOrigin(loc, lines[i])]
              ELSE ScanLines(lines, i + 1, first, firstOrigin)

captureLocation(lines) == ScanLines(lines, 1, NoLoc, "undefined")


(***************************************************************************)
(* Tracer state and clock.                                                 *)
(***************************************************************************)
\* nowRel(): performance.now() - t0
nowRel == clock - t0

NoFile == [exists |-> FALSE, data |-> <<>>]

Signals == {"SIGINT", "SIGTERM"}
AsyncTypes == {"PROMISE", "Timeout"}

\* call stacks the host program creates promises under
TracedStacks == { <<F_tracer, F_internal, F_user>> }

\* events.set(asyncId, {...})
MapSet(evs, key, val) ==
  [k \in DOMAIN evs \cup {key} |-> IF k = key THEN val ELSE evs[k]]

(***************************************************************************)
(* The async_hooks callbacks.  The runtime hands init a fresh asyncId      *)
(* (nextAsyncId); promiseResolve and destroy may come for any id handed    *)
(* out so far, in any order and any number of times.                       *)
(***************************************************************************)
CallbacksRun == pc \in {"running", "beforeExit"}

\* init with start stamped from the absolute clock instead of nowRel()
init_absoluteStart(asyncId, type, triggerAsyncId, lines) ==
  /\ CallbacksRun
  /\ asyncId = nextAsyncId
  /\ nextAsyncId <= MaxAsyncIds
  /\ nextAsyncId' = nextAsyncId + 1
  /\ events' =
       IF type # "PROMISE" THEN events
       ELSE LET meta == captureLocation(lines) IN
            MapSet(events, asyncId,
                   [id |-> asyncId, triggerId |-> triggerAsyncId, type |-> type,
                    start |-> clock, end |-> Undefined,
                    location |-> meta.location, origin |-> meta.origin])
  /\ UNCHANGED <<clock, t0, pc, pendingWork, hostListens, exitCause,
                 exitCode, traceFile, firstTrace, writes, flushCalls, ioFailed,
                 propagated, failLogged, lateCb>>
  /\ UNCHANGED <<captureVars, correlateVars, jobVars, cliVars, ruleVars, fixVars>>

init(asyncId, type, triggerAsyncId, lines) ==
  /\ CallbacksRun
  /\ asyncId = nextAsyncId
  /\ nextAsyncId <= MaxAsyncIds
  /\ nextAsyncId' = nextAsyncId + 1
  /\ events' =
       IF type # "PROMISE" THEN events
       ELSE LET meta == captureLocation(lines) IN
            MapSet(events, asyncId,
                   [id |-> asyncId, triggerId |-> triggerAsyncId, type |-> type,
                    start |-> nowRel, end |-> Undefined,
                    location |-> meta.location, origin |-> meta.origin])
  /\ UNCHANGED <<clock, t0, pc, pendingWork, hostListens, exitCause,
                 exitCode, traceFile, firstTrace, writes, flushCalls, ioFailed,
                 propagated, failLogged, lateCb>>
  /\ UNCHANGED <<captureVars, correlateVars, jobVars, cliVars, ruleVars, fixVars>>

\* the callback found the event's end already stamped
FoundClosed(asyncId) ==
  asyncId \in DOMAIN events /\ events[asyncId].end # Undefined

\* promiseResolve without the `evt.end === undefined` test
promiseResolve_overwrite(asyncId) ==
  /\ CallbacksRun
  /\ asyncId \in 1..(nextAsyncId - 1)
  /\ events' = IF asyncId \in DOMAIN events
                 THEN [events EXCEPT ![asyncId].end = nowRel]
                 ELSE events
  /\ lateCb' = (lateCb \/ FoundClosed(asyncId))
  /\ UNCHANGED <<clock, t0, nextAsyncId, pc, pendingWork, hostListens,
                 exitCause, exitCode, traceFile, firstTrace, writes, flushCalls,
                 ioFailed, propagated, failLogged>>
  /\ UNCHANGED <<captureVars, correlateVars, jobVars, cliVars, ruleVars, fixVars>>

promiseResolve(asyncId) ==
  /\ CallbacksRun
  /\ asyncId \in 1..(nextAsyncId - 1)
  /\ events' = IF asyncId \in DOMAIN events /\ events[asyncId].end = Undefined
                 THEN [events EXCEPT ![asyncId].end = nowRel]
                 ELSE events
  /\ lateCb' = (lateCb \/ FoundClosed(asyncId))
  /\ UNCHANGED <<clock, t0, nextAsyncId, pc, pendingWork, hostListens,
                 exitCause, exitCode, traceFile, firstTrace, writes, flushCalls,
                 ioFailed, propagated, failLogged>>
  /\ UNCHANGED <<captureVars, correlateVars, jobVars, cliVars, ruleVars, fixVars>>

destroy(asyncId) ==
  /\ CallbacksRun
  /\ asyncId \in 1..(nextAsyncId - 1)
  /\ events' = IF asyncId \in DOMAIN events /\ events[asyncId].end = Undefined
                 THEN [events EXCEPT ![asyncId].end = nowRel]
                 ELSE events
  /\ lateCb' = (lateCb \/ FoundClosed(asyncId))
  /\ UNCHANGED <<clock, t0, nextAsyncId, pc, pendingWork, hostListens,
                 exitCause, exitCode, traceFile, firstTrace, writes, flushCalls,
                 ioFailed, propagated, failLogged>>
  /\ UNCHANGED <<captureVars, correlateVars, jobVars, cliVars, ruleVars, fixVars>>

\* performance.now() advances (it never goes back)
Tick ==
  /\ pc # "exited"
  /\ clock - t0 < MaxTicks
  /\ clock' = clock + 1
  /\ UNCHANGED <<t0, events, nextAsyncId, pc, pendingWork, hostListens,
                 exitCause, exitCode, traceFile, firstTrace, writes, flushCalls,
                 ioFailed, propagated, failLogged, lateCb>>
  /\ UNCHANGED <<captureVars, correlateVars, jobVars, cliVars, ruleVars, fixVars>>

(***************************************************************************)
(* flush.                                                                  *)
(***************************************************************************)
\* Array.from(events.values()): a Map iterates in insertion order, and
\* init inserts in ascending asyncId order
RECURSIVE ArrayFrom(_)
ArrayFrom(evs) ==
  IF DOMAIN evs = {} THEN <<>>
  ELSE LET m == CHOOSE k \in DOMAIN evs : \A j \in DOMAIN evs : k <= j
       IN <<evs[m]>> \o ArrayFrom([k \in DOMAIN evs \ {m} |-> evs[k]])

\* arr.sort((a, b) => a.start - b.start): a stable sort
RECURSIVE InsertByStart(_, _)
InsertByStart(e, s) ==
  IF s = <<>> THEN <<e>>
  ELSE IF s[1].start <= e.start THEN <<s[1]>> \o InsertByStart(e, Tail(s))
  ELSE <<e>> \o s

RECURSIVE SortByStart(_)
SortByStart(arr) ==
  IF arr = <<>> THEN <<>>
  ELSE InsertByStart(arr[Len(arr)], SortByStart(SubSeq(arr, 1, Len(arr) - 1)))

\* mkdirSync's error is swallowed, writeFileSync's is thrown
safeWriteFileSync(file, data, mkdirFails, writeFails) ==
  [file |-> IF writeFails THEN file ELSE [exists |-> TRUE, data |-> data],
   threw |-> writeFails]

\* flush without its try/catch
flush_uncaught(evs, file, mkdirFails, writeFails) ==
  LET arr == SortByStart(ArrayFrom(evs))
      w == safeWriteFileSync(file, arr, mkdirFails, writeFails)
  IN [file |-> w.file, wrote |-> ~w.threw,
      logged |-> IF w.threw THEN "none" ELSE "wrote", threw |-> w.threw]

flush(evs, file, mkdirFails, writeFails) ==
  LET arr == SortByStart(ArrayFrom(evs))
      w == safeWriteFileSync(file, arr, mkdirFails, writeFails)
  IN [file |-> w.file, wrote |-> ~w.threw,
      logged |-> IF w.threw THEN "failed" ELSE "wrote", threw |-> FALSE]

\* the flush-related state, and one flush call applied to it
FlushState ==
  [file |-> traceFile, first |-> firstTrace, writes |-> writes,
   calls |-> flushCalls, ioFailed |-> ioFailed, propagated |-> propagated,
   failLogged |-> failLogged]

CallFlush(st, mkdirFails, writeFails) ==
  LET r == flush(events, st.file, mkdirFails, writeFails) IN
  [file |-> r.file,
   first |-> IF st.writes = 0 /\ r.wrote THEN r.file ELSE st.first,
   writes |-> st.writes + (IF r.wrote THEN 1 ELSE 0),
   calls |-> st.calls + 1,
   ioFailed |-> (st.ioFailed \/ mkdirFails \/ writeFails),
   propagated |-> (st.propagated \/ r.threw),
   failLogged |-> (st.failLogged \/ r.logged = "failed")]

SetFlushState(st) ==
  /\ traceFile' = st.file
  /\ firstTrace' = st.first
  /\ writes' = st.writes
  /\ flushCalls' = st.calls
  /\ ioFailed' = st.ioFailed
  /\ propagated' = st.propagated
  /\ failLogged' = st.failLogged

(***************************************************************************)
(* Termination hooks.  The tracer is preloaded (--require), so each of its *)
(* listeners is registered, and runs, before the host program's listener   *)
(* for the same event.                                                     *)
(***************************************************************************)
\* process.on('beforeExit', flush): the event loop has drained
EmitBeforeExit(mkdirFails, writeFails) ==
  /\ pc = "running"
  /\ pendingWork = 0
  /\ flushCalls < MaxBeforeExit
  /\ SetFlushState(CallFlush(FlushState, mkdirFails, writeFails))
  /\ pc' = "beforeExit"
  /\ UNCHANGED <<clock, t0, events, nextAsyncId, pendingWork, hostListens,
                 exitCause, exitCode, lateCb>>
  /\ UNCHANGED <<captureVars, correlateVars, jobVars, cliVars, ruleVars, fixVars>>

\* a beforeExit listener of the host schedules more work: the loop resumes
HostSchedulesWork ==
  /\ pc = "beforeExit"
  /\ pendingWork' = 1
  /\ pc' = "running"
  /\ UNCHANGED <<clock, t0, events, nextAsyncId, hostListens,
                 exitCause, exitCode, traceFile, firstTrace, writes, flushCalls,
                 ioFailed, propagated, failLogged, lateCb>>
  /\ UNCHANGED <<captureVars, correlateVars, jobVars, cliVars, ruleVars, fixVars>>

HostWorkDone ==
  /\ pc = "running"
  /\ pendingWork > 0
  /\ pendingWork' = pendingWork - 1
  /\ UNCHANGED <<clock, t0, events, nextAsyncId, pc, hostListens,
                 exitCause, exitCode, traceFile, firstTrace, writes, flushCalls,
                 ioFailed, propagated, failLogged, lateCb>>
  /\ UNCHANGED <<captureVars, correlateVars, jobVars, cliVars, ruleVars, fixVars>>

\* process.on('exit', flush), the loop stayed empty after beforeExit
EmitExit(mkdirFails, writeFails) ==
  /\ pc = "beforeExit"
  /\ SetFlushState(CallFlush(FlushState, mkdirFails, writeFails))
  /\ pc' = "exited"
  /\ exitCause' = "loopEmpty"
  /\ exitCode' = 0
  /\ UNCHANGED <<clock, t0, events, nextAsyncId, pendingWork, hostListens,
                 lateCb>>
  /\ UNCHANGED <<captureVars, correlateVars, jobVars, cliVars, ruleVars, fixVars>>

\* process.on('exit', flush), the host program called process.exit(code)
HostProcessExit(code, mkdirFails, writeFails) ==
  /\ pc \in {"running", "beforeExit"}
  /\ SetFlushState(CallFlush(FlushState, mkdirFails, writeFails))
  /\ pc' = "exited"
  /\ exitCause' = "hostExit"
  /\ exitCode' = code
  /\ UNCHANGED <<clock, t0, events, nextAsyncId, pendingWork, hostListens,
                 lateCb>>
  /\ UNCHANGED <<captureVars, correlateVars, jobVars, cliVars, ruleVars, fixVars>>

\* codes the host program passes to process.exit
HostExitCodes == {1}

SignalExitCode(sig) == IF sig = "SIGINT" THEN 130 ELSE 143

\* process.on(sig, () => { flush(); process.exit(code); }): process.exit
\* emits 'exit' at once, whose first listener is the tracer's flush, and the
\* process ends before any later listener for sig is called
Signal(sig, mkdirFails, writeFails, mkdirFails2, writeFails2) ==
  /\ pc \in {"running", "beforeExit"}
  /\ SetFlushState(CallFlush(CallFlush(FlushState, mkdirFails, writeFails),
                             mkdirFails2, writeFails2))
  /\ pc' = "exited"
  /\ exitCause' = "tracerExit"
  /\ exitCode' = SignalExitCode(sig)
  /\ UNCHANGED <<clock, t0, events, nextAsyncId, pendingWork, hostListens,
                 lateCb>>
  /\ UNCHANGED <<captureVars, correlateVars, jobVars, cliVars, ruleVars, fixVars>>


(***************************************************************************)
(* captureLocation over call stacks.  The stack starts with the frame of   *)
(* captureLocation itself; the frames of its callers follow.               *)
(***************************************************************************)
NotCaptured == [called |-> FALSE, location |-> NoLoc, origin |-> "undefined"]

PushFrame(f) ==
  /\ ~captured.called
  /\ Len(stack) <= MaxStack
  /\ stack' = Append(stack, f)
  /\ UNCHANGED captured
  /\ UNCHANGED <<tracerVars, correlateVars, jobVars, cliVars, ruleVars, fixVars>>

Capture ==
  /\ ~captured.called
  /\ captured' = [called |-> TRUE,
                  location |-> captureLocation(stack).location,
                  origin |-> captureLocation(stack).origin]
  /\ UNCHANGED stack
  /\ UNCHANGED <<tracerVars, correlateVars, jobVars, cliVars, ruleVars, fixVars>>

NextStack ==
  /\ captured.called
  /\ stack' = <<F_tracer>>
  /\ captured' = NotCaptured
  /\ UNCHANGED <<tracerVars, correlateVars, jobVars, cliVars, ruleVars, fixVars>>


(***************************************************************************)
(* Trace <-> findings cross-reference (server.ts).                         *)
(*                                                                         *)
(* A location string is kept as its ":"-separated fields: a run of digits  *)
(* is Num(n), any other field Text(dir, file), the path dir + "/" + file.  *)
(* "/root/a.js:12:3" is <<Text("root","a.js"), Num(12), Num(3)>>; a        *)
(* missing location (undefined) is <<>>.                                   *)
(***************************************************************************)
Num(n) == [num |-> TRUE, n |-> n, dir |-> "", file |-> ""]
Text(dir, file) == [num |-> FALSE, n |-> 0, dir |-> dir, file |-> file]

\* the job's project root, and a directory outside it
Root == "root"
Elsewhere == "other"

\* /^(.*):(\d+)(?::\d+)?$/ : (.*) is greedy, so it takes everything up to
\* the LAST ":" that is followed by digits only, and the optional group
\* stays empty
parseLocation(loc) ==
  IF Len(loc) >= 2 /\ loc[Len(loc)].num
    THEN [ok |-> TRUE, abs |-> SubSeq(loc, 1, Len(loc) - 1), line |-> loc[Len(loc)].n]
    ELSE [ok |-> FALSE, abs |-> <<>>, line |-> 0]

\* path.relative(root, abs).replace(/\\/g, '/')
relative(root, abs) ==
  [i \in 1..Len(abs) |->
     IF i = 1 /\ ~abs[1].num
       THEN [abs[1] EXCEPT !.dir = IF abs[1].dir = root THEN "" ELSE ".."]
       ELSE abs[i]]

\* r.file === rel
FileEquals(file, rel) == rel = <<Text("", file)>>

\* String(s).split(/\r?\n/).length || 1, s a sequence of characters
RECURSIVE SplitLength(_)
SplitLength(s) ==
  IF s = <<>> THEN 1
  ELSE (IF Head(s) = "LF" THEN 1 ELSE 0) + SplitLength(Tail(s))

fnRanges(findings) ==
  [i \in 1..Len(findings) |->
     [id |-> findings[i].id, file |-> findings[i].file,
      start |-> findings[i].funcStart,
      end |-> findings[i].funcStart + SplitLength(findings[i].funcSnippet) - 1,
      rule |-> findings[i].rule]]

\* map[key] = (map[key] || 0) + 1
Increment(map, key) ==
  IF key \in DOMAIN map THEN [map EXCEPT ![key] = @ + 1] ELSE MapSet(map, key, 1)

\* for (const r of fnRanges) { ... }, from range j on
RECURSIVE RangeLoop(_, _, _, _, _)
RangeLoop(acc, ranges, j, rel, line) ==
  IF j > Len(ranges) THEN acc
  ELSE LET r == ranges[j] IN
    IF FileEquals(r.file, rel) /\ line >= r.start /\ line <= r.end
      THEN RangeLoop([acc EXCEPT !.execCounts = Increment(@, r.id),
                                 !.byRuleExecuted = Increment(@, r.rule)],
                     ranges, j + 1, rel, line)
      ELSE RangeLoop(acc, ranges, j + 1, rel, line)

\* for (const ev of events) { ... }, from event i on
RECURSIVE EventLoop(_, _, _, _, _)
EventLoop(acc, root, ranges, evs, i) ==
  IF i > Len(evs) THEN acc
  ELSE LET loc == parseLocation(evs[i].location) IN
    IF ~loc.ok THEN EventLoop(acc, root, ranges, evs, i + 1)
    ELSE LET counted == RangeLoop(acc, ranges, 1, relative(root, loc.abs), loc.line)
             tallied == IF evs[i].origin = "user"
                          THEN [counted EXCEPT !.userEvents = @ + 1]
                          ELSE [counted EXCEPT !.libEvents = @ + 1]
         IN EventLoop(tallied, root, ranges, evs, i + 1)

EmptyMap == [k \in {} |-> 0]

\* crossReference with executedFindingCount counting the events
crossReference_countsEvents(root, rep, evs) ==
  LET acc == EventLoop([execCounts |-> EmptyMap, byRuleExecuted |-> EmptyMap,
                        userEvents |-> 0, libEvents |-> 0],
                       root, fnRanges(rep.findings), evs, 1)
  IN [execCounts |-> acc.execCounts,
      summary |-> [totalTraceEvents |-> Len(evs),
                   userEvents |-> acc.userEvents,
                   libEvents |-> acc.libEvents,
                   executedFindingCount |-> Len(evs),
                   byRuleExecuted |-> acc.byRuleExecuted]]

crossReference(root, rep, evs) ==
  LET acc == EventLoop([execCounts |-> EmptyMap, byRuleExecuted |-> EmptyMap,
                        userEvents |-> 0, libEvents |-> 0],
                       root, fnRanges(rep.findings), evs, 1)
  IN [execCounts |-> acc.execCounts,
      summary |-> [totalTraceEvents |-> Len(evs),
                   userEvents |-> acc.userEvents,
                   libEvents |-> acc.libEvents,
                   executedFindingCount |-> Cardinality(DOMAIN acc.execCounts),
                   byRuleExecuted |-> acc.byRuleExecuted]]

(***************************************************************************)
(* Report merger.  The operator returns the merged report together with    *)
(* its two arguments as the call leaves them.                              *)
(***************************************************************************)
\* overlay.execCounts[f.id] || 0
ExecCountOf(ov, f) ==
  IF f.id \in DOMAIN ov.execCounts THEN ov.execCounts[f.id] ELSE 0

\* { ...f, execCount }
WithExecCount(f, n) ==
  [id |-> f.id, file |-> f.file, line |-> f.line, rule |-> f.rule,
   funcStart |-> f.funcStart, funcSnippet |-> f.funcSnippet, execCount |-> n]

\* the merge writing execCount into the static report's own findings
mergeReportWithExec_inPlace(staticReport, ov) ==
  LET fs == [i \in 1..Len(staticReport.findings) |->
               WithExecCount(staticReport.findings[i],
                             ExecCountOf(ov, staticReport.findings[i]))]
  IN [result |-> [findings |-> fs, dynamic |-> ov.summary],
      staticReport |-> [findings |-> fs],
      overlay |-> ov]

mergeReportWithExec(staticReport, ov) ==
  [result |->
     [findings |-> [i \in 1..Len(staticReport.findings) |->
                      WithExecCount(staticReport.findings[i],
                                    ExecCountOf(ov, staticReport.findings[i]))],
      dynamic |-> ov.summary],
   staticReport |-> staticReport,
   overlay |-> ov]

(***************************************************************************)
(* Inputs of the correlator: static reports as runAnalysis leaves them     *)
(* (sorted by file and line, ids 1..n) and uploaded event lists.           *)
(***************************************************************************)
OneLine == <<"x">>
ThreeLines == <<"x", "LF", "x", "LF", "x">>

FindingShapes ==
  { [file |-> "a.js", funcStart |-> 10, funcSnippet |-> ThreeLines, rule |-> "await-in-loop"],
    [file |-> "a.js", funcStart |-> 11, funcSnippet |-> OneLine, rule |-> "custom-promisification"],
    [file |-> "b.js", funcStart |-> 20, funcSnippet |-> OneLine, rule |-> "await-in-loop"] }

MakeFinding(id, sh) ==
  [id |-> id, file |-> sh.file, line |-> sh.funcStart, rule |-> sh.rule,
   funcStart |-> sh.funcStart, funcSnippet |-> sh.funcSnippet]

\* "a.js" sorts before "b.js"
FileLeq(f, g) == f = "a.js" \/ g = "b.js"

KeyLeq(a, b) ==
  \/ (a.file # b.file /\ FileLeq(a.file, b.file))
  \/ (a.file = b.file /\ a.funcStart <= b.funcStart)

Reports ==
  UNION {{[findings |-> [i \in 1..n |-> MakeFinding(i, shs[i])]] :
            shs \in {t \in [1..n -> FindingShapes] :
                       \A i \in 1..(n - 1) : KeyLeq(t[i], t[i + 1])}} :
         n \in 0..MaxFindings}

TraceEventOptions ==
  { [location |-> <<>>, origin |-> "user"],
    [location |-> <<Text(Root, "a.js"), Num(11)>>, origin |-> "user"],
    [location |-> <<Text(Root, "a.js"), Num(11), Num(3)>>, origin |-> "user"],
    [location |-> <<Text(Root, "b.js"), Num(20)>>, origin |-> "library"],
    [location |-> <<Text(Elsewhere, "a.js"), Num(11)>>, origin |-> "library"],
    [location |-> <<Text(Root, "anonymous")>>, origin |-> "io"] }

EventLists == UNION {[1..n -> TraceEventOptions] : n \in 0..MaxEvents}

NoSummary == [totalTraceEvents |-> Undefined, userEvents |-> 0, libEvents |-> 0,
              executedFindingCount |-> 0, byRuleExecuted |-> EmptyMap]
NoOverlay == [execCounts |-> EmptyMap, summary |-> NoSummary]
NoMerged == [findings |-> <<>>, dynamic |-> NoSummary]

\* const overlay = crossReference(root, staticReport, events); every overlay
\* is merged (as the upload handler does) before the next trace is correlated
CrossReference(evs) ==
  /\ overlay = NoOverlay \/ (merges > 0 /\ usedOverlay = overlay)
  /\ traceEvents' = evs
  /\ overlay' = crossReference(Root, report, evs)
  /\ UNCHANGED <<report, usedOverlay, reportBefore, merged, merges, otherBefore>>
  /\ UNCHANGED <<tracerVars, captureVars, jobVars, cliVars, ruleVars, fixVars>>

\* const merged = mergeReportWithExec(staticReport, overlay)
Merge ==
  /\ overlay # NoOverlay
  /\ merges < MaxMerges
  /\ LET r == mergeReportWithExec(report, overlay) IN
       /\ merged' = r.result
       /\ report' = r.staticReport
       /\ overlay' = r.overlay
  /\ usedOverlay' = overlay
  /\ reportBefore' = report
  /\ merges' = merges + 1
  /\ otherBefore' = (otherBefore \/ (merges > 0 /\ usedOverlay # overlay))
  /\ UNCHANGED traceEvents
  /\ UNCHANGED <<tracerVars, captureVars, jobVars, cliVars, ruleVars, fixVars>>

(***************************************************************************)
(* Job routes (server.ts) over one job directory.                          *)
(*                                                                         *)
(* A JSON document is a record of one shape: `array` tells Array.isArray,  *)
(* `items` are the array's elements, and has<Key> tells whether an object   *)
(* carries that key.  A report is {findings}, an overlay                   *)
(* {execCounts, summary}, a merged report {findings, dynamic}.             *)
(***************************************************************************)
MaxJobOps == 3

EmptyObject ==
  [array |-> FALSE, items |-> <<>>,
   hasEvents |-> FALSE, events |-> <<>>,
   hasFindings |-> FALSE, findings |-> <<>>,
   hasExecCounts |-> FALSE, execCounts |-> EmptyMap,
   hasSummary |-> FALSE, summary |-> NoSummary,
   hasDynamic |-> FALSE, dynamic |-> NoSummary]

ArrayDoc(items) == [EmptyObject EXCEPT !.array = TRUE, !.items = items]
EventsDoc(evs) == [EmptyObject EXCEPT !.hasEvents = TRUE, !.events = evs]
ReportDoc(rep) == [EmptyObject EXCEPT !.hasFindings = TRUE, !.findings = rep.findings]
OverlayDoc(ov) ==
  [EmptyObject EXCEPT !.hasExecCounts = TRUE, !.execCounts = ov.execCounts,
                      !.hasSummary = TRUE, !.summary = ov.summary]

\* a file of the job directory
Missing == [exists |-> FALSE, doc |-> EmptyObject]
Stored(doc) == [exists |-> TRUE, doc |-> doc]

\* JSON.parse(fs.readFileSync(p, 'utf8')); every document of the model
\* survives JSON.stringify / JSON.parse unchanged
readJSON(file) == file.doc

\* fs.writeFileSync(p, JSON.stringify(val, null, 2), 'utf8')
writeJSON(val) == Stored(val)

\* Array.isArray(report?.findings) ? report.findings : []
reportFindings(doc) == IF doc.hasFindings THEN doc.findings ELSE <<>>

\* Array.isArray(traceRaw) ? traceRaw
\*   : Array.isArray(traceRaw?.events) ? traceRaw.events : []
traceEventsOf(traceRaw) ==
  IF traceRaw.array THEN traceRaw.items
  ELSE IF traceRaw.hasEvents THEN traceRaw.events
  ELSE <<>>

\* crossReference(root, staticReport, events) on stored documents
crossReferenceDoc(staticReport, evs) ==
  OverlayDoc(crossReference(Root, [findings |-> reportFindings(staticReport)], evs))

\* staticReport.findings.map(...) throws a TypeError when findings is
\* undefined, and overlay.execCounts[f.id] does when execCounts is
mergeThrows(staticReport, ov) ==
  \/ ~staticReport.hasFindings
  \/ (staticReport.findings # <<>> /\ ~ov.hasExecCounts)

\* { ...staticReport, findings: ..., dynamic: overlay.summary }
mergeDoc(staticReport, ov) ==
  [staticReport EXCEPT
     !.findings = mergeReportWithExec([findings |-> staticReport.findings],
                                      [execCounts |-> ov.execCounts,
                                       summary |-> ov.summary]).result.findings,
     !.hasDynamic = ov.hasSummary,
     !.dynamic = ov.summary]

\* res.status(s).json(body); an error body carries no document
Reply(status, body) == [status |-> status, body |-> body]
Failure(status) == Reply(status, EmptyObject)
NoResponse == Reply(Undefined, EmptyObject)

\* the reports an analysis of the job's project can produce
JobReports == {r \in Reports : Len(r.findings) = 1}

\* the contents of the uploaded file
EventOnFinding == [location |-> <<Text(Root, "a.js"), Num(11)>>, origin |-> "user"]
EventElsewhere == [location |-> <<Text(Elsewhere, "a.js"), Num(11)>>, origin |-> "library"]
UploadDocs ==
  { ArrayDoc(<<EventOnFinding>>), ArrayDoc(<<>>),
    EventsDoc(<<EventElsewhere>>),
    EmptyObject,
    [EmptyObject EXCEPT !.hasFindings = TRUE, !.hasEvents = TRUE,
                        !.events = <<EventOnFinding>>] }

\* file.originalname of the uploaded file; "" is a request without a file
UploadNames == {"trace.json", "anti-patterns.json", "executions.json", "trace.txt", ""}

\* fileFilter: /\.json$/i.test(file.originalname)
fileFilter(name) == name \in {"trace.json", "anti-patterns.json", "executions.json"}

\* filename: originalname if it ends with ".json", else "trace.json"
filename(name) == IF fileFilter(name) THEN name ELSE "trace.json"

NoUpload == [name |-> "", doc |-> EmptyObject]

\* POST /jobs/:jobId/trace.  uploadTrace.single('trace') stores the file
\* in the job directory under filename(originalname) before the handler
\* runs; a name the filter rejects ends the request in the error handler.
UploadTrace(name, doc) ==
  /\ jobOps < MaxJobOps
  /\ jobOps' = jobOps + 1
  /\ lastOp' = "upload"
  /\ lastUpload' = [name |-> name, doc |-> doc]
  /\ LET hasFile == name # ""
         accepted == hasFile /\ fileFilter(name)
         stored1 == IF accepted /\ filename(name) = "anti-patterns.json"
                      THEN Stored(doc) ELSE antiPatterns
         stored2 == IF accepted /\ filename(name) = "executions.json"
                      THEN Stored(doc) ELSE executions
     IN IF hasFile /\ ~accepted
          THEN /\ response' = Failure(500)
               /\ UNCHANGED <<antiPatterns, executions, jobDir, lastOverlay, okUploads,
                              overlayAnalysis>>
        ELSE IF ~stored1.exists
          THEN /\ response' = Failure(404)
               /\ antiPatterns' = stored1
               /\ executions' = stored2
               /\ overlayAnalysis' =
                    IF accepted /\ filename(name) = "executions.json"
                      THEN 0 ELSE overlayAnalysis
               /\ jobDir' = (jobDir \/ hasFile)
               /\ UNCHANGED <<lastOverlay, okUploads>>
        ELSE IF ~hasFile
          THEN /\ response' = Failure(400)
               /\ UNCHANGED <<antiPatterns, executions, jobDir, lastOverlay, okUploads,
                              overlayAnalysis>>
        ELSE LET staticReport == readJSON(stored1)
                 traceRaw == doc
                 ov == crossReferenceDoc(staticReport, traceEventsOf(traceRaw))
             IN /\ antiPatterns' = stored1
                /\ executions' = writeJSON(ov)
                /\ overlayAnalysis' = analyses
                /\ jobDir' = TRUE
                /\ IF mergeThrows(staticReport, ov)
                     THEN /\ response' = Failure(500)
                          /\ UNCHANGED <<lastOverlay, okUploads>>
                     ELSE /\ response' = Reply(200, mergeDoc(staticReport, ov))
                          /\ lastOverlay' = ov
                          /\ okUploads' = okUploads + 1
  /\ UNCHANGED <<projectExists, analyses, lastAnalysis>>
  /\ UNCHANGED <<tracerVars, captureVars, correlateVars, cliVars, ruleVars, fixVars>>

\* GET /jobs/:jobId/report; an exception leaves the handler into the
\* framework's error handler, which answers 500
GetReport ==
  /\ jobOps < MaxJobOps
  /\ jobOps' = jobOps + 1
  /\ lastOp' = "report"
  /\ response' =
       IF ~antiPatterns.exists THEN Failure(404)
       ELSE LET staticReport == readJSON(antiPatterns) IN
         IF executions.exists
           THEN LET ov == readJSON(executions) IN
                  IF mergeThrows(staticReport, ov) THEN Failure(500)
                  ELSE Reply(200, mergeDoc(staticReport, ov))
           ELSE Reply(200, staticReport)
  /\ UNCHANGED <<antiPatterns, executions, jobDir, projectExists, analyses,
                 lastUpload, lastAnalysis, lastOverlay, okUploads,
                 overlayAnalysis>>
  /\ UNCHANGED <<tracerVars, captureVars, correlateVars, cliVars, ruleVars, fixVars>>

\* POST /jobs/:jobId/ai/fix with its required fields and an existing
\* target file.  aiOk: the AI service answered with a fixed function;
\* rep: what runAnalysis(root) returns once the function is replaced.
FixApply(apply, aiOk, rep) ==
  /\ jobOps < MaxJobOps
  /\ jobOps' = jobOps + 1
  /\ lastOp' = "fix"
  /\ IF ~projectExists
       THEN /\ response' = Failure(404)
            /\ UNCHANGED <<antiPatterns, analyses, lastAnalysis>>
     ELSE IF ~aiOk
       THEN /\ response' = Failure(500)
            /\ UNCHANGED <<antiPatterns, analyses, lastAnalysis>>
     ELSE IF ~apply
       THEN /\ response' = Reply(200, EmptyObject)
            /\ UNCHANGED <<antiPatterns, analyses, lastAnalysis>>
     ELSE LET result == ReportDoc(rep) IN
            /\ analyses' = analyses + 1
            /\ lastAnalysis' = result
            /\ antiPatterns' = writeJSON(result)
            /\ response' =
                 IF executions.exists
                   THEN IF mergeThrows(result, readJSON(executions)) THEN Failure(500)
                        ELSE Reply(200, mergeDoc(result, readJSON(executions)))
                   ELSE Reply(200, result)
  /\ UNCHANGED <<executions, jobDir, projectExists, lastUpload, lastOverlay,
                 okUploads, overlayAnalysis>>
  /\ UNCHANGED <<tracerVars, captureVars, correlateVars, cliVars, ruleVars, fixVars>>

\* DELETE /jobs/:jobId
DeleteJob ==
  /\ jobOps < MaxJobOps
  /\ jobOps' = jobOps + 1
  /\ lastOp' = "delete"
  /\ IF jobDir
       THEN /\ response' = Reply(200, EmptyObject)
            /\ antiPatterns' = Missing
            /\ executions' = Missing
            /\ overlayAnalysis' = 0
            /\ jobDir' = FALSE
            /\ projectExists' = FALSE
       ELSE /\ response' = Failure(404)
            /\ UNCHANGED <<antiPatterns, executions, jobDir, projectExists,
                           overlayAnalysis>>
  /\ UNCHANGED <<analyses, lastUpload, lastAnalysis, lastOverlay, okUploads>>
  /\ UNCHANGED <<tracerVars, captureVars, correlateVars, cliVars, ruleVars, fixVars>>

(***************************************************************************)
(* Analyzer command line (cli/src/index.ts).                               *)
(*                                                                         *)
(* A source file is its text, a sequence of lines of tokens (a column is   *)
(* a token's position in its line), together with what the linter does     *)
(* with that text: whether it parses, whether a rule throws on one of its  *)
(* nodes, and the problems the rules report, in the order of the           *)
(* traversal.  eol is the line terminator the file is written with.        *)
(***************************************************************************)
MaxFiles == 2

\* file names in ascending order of the "<" of strings
FileNames == <<"a.js", "b.js", "c.js", "d.js">>
FileRank(f) == CHOOSE i \in 1..Len(FileNames) : FileNames[i] = f
FileLess(f, g) == FileRank(f) < FileRank(g)

Problem(line, column, ruleId, fix) ==
  [line |-> line, column |-> column, ruleId |-> ruleId, fix |-> fix]

Source(text, problems) ==
  [readable |-> TRUE, parses |-> TRUE, throws |-> FALSE,
   text |-> text, problems |-> problems, eol |-> "LF"]

CleanSource == Source(<< <<"const", "x", "=", "1">> >>, <<>>)
AwaitInLoopSource ==
  Source(<< <<"for", "(", "u", "of", "us", ")">>, <<"await", "f", "(", "u", ")">> >>,
         << Problem(2, 1, "await-in-loop", FALSE) >>)
\* the return statement is visited before the await expression it holds
ReturnAwaitInLoopSource ==
  Source(<< <<"async", "function", "g", "(", ")", "{">>,
            <<"while", "(", "c", ")">>,
            <<"return", "await", "x">>, <<"}">> >>,
         << Problem(3, 2, "async-function-awaited-return", TRUE),
            Problem(3, 2, "await-in-loop", FALSE) >>)
ReturnAwaitCrlfSource == [ReturnAwaitInLoopSource EXCEPT !.eol = "CRLF"]
PromiseWrapperSource ==
  Source(<< <<"const", "q", "=", "new", "Promise", "(", "r", "=>", "{",
              "r", "(", "v", ")", "}", ")">> >>,
         << Problem(1, 4, "redundant-new-promise-wrapper", TRUE) >>)
SyntaxErrorSource ==
  [Source(<< <<"function", "(">> >>, <<>>) EXCEPT !.parses = FALSE]
RuleThrowsSource ==
  [Source(<< <<"new", "Promise", "(", "e", ")">> >>, <<>>) EXCEPT !.throws = TRUE]
UnreadableSource ==
  [Source(<< <<"const", "y", "=", "2">> >>, <<>>) EXCEPT !.readable = FALSE]

Sources ==
  { CleanSource, AwaitInLoopSource, ReturnAwaitInLoopSource,
    ReturnAwaitCrlfSource, PromiseWrapperSource, SyntaxErrorSource, RuleThrowsSource, UnreadableSource }

\* ruleId of the problem the linter makes of a parse failure
NullRule == "null"

\* problems.sort((a, b) => a.line - b.line || a.column - b.column)
RECURSIVE InsertProblem(_, _)
InsertProblem(s, x) ==
  IF s = <<>> THEN <<x>>
  ELSE IF Head(s).line > x.line \/ (Head(s).line = x.line /\ Head(s).column > x.column)
    THEN <<x>> \o s
    ELSE <<Head(s)>> \o InsertProblem(Tail(s), x)

RECURSIVE SortProblems(_)
SortProblems(s) ==
  IF s = <<>> THEN <<>>
  ELSE InsertProblem(SortProblems(SubSeq(s, 1, Len(s) - 1)), s[Len(s)])

\* linter.verify(code, config, { filename }): a text that does not parse
\* gives one fatal problem with ruleId null at the place of the error; an
\* exception thrown by a rule's listener leaves verify
verify(src) ==
  IF ~src.parses
    THEN [threw |-> FALSE,
          messages |-> << Problem(Len(src.text), Len(src.text[Len(src.text)]),
                                  NullRule, FALSE) >>]
  ELSE IF src.throws THEN [threw |-> TRUE, messages |-> <<>>]
  ELSE [threw |-> FALSE, messages |-> SortProblems(src.problems)]

\* results.push({ id: 0, file, line, column, pattern: m.ruleId || '',
\*                message, fixable: Boolean(m.fix) })
toResult(filePath, m) ==
  [id |-> 0, file |-> filePath, line |-> m.line, column |-> m.column,
   pattern |-> IF m.ruleId = NullRule THEN "" ELSE m.ruleId,
   fixable |-> m.fix]

\* files.forEach(filePath => { ... }), from file i on; an exception of
\* readFileSync or of verify ends the loop and leaves runAnalysis
RECURSIVE forEachFile(_, _, _, _)
forEachFile(proj, files, i, acc) ==
  IF i > Len(files) THEN acc
  ELSE LET filePath == files[i]
           code == proj[filePath]
       IN IF ~code.readable THEN [acc EXCEPT !.threw = "read"]
          ELSE LET v == verify(code)
                   seen == [acc EXCEPT !.verified = @ \cup {filePath}]
               IN IF v.threw THEN [seen EXCEPT !.threw = "rule"]
                  ELSE forEachFile(proj, files, i + 1,
                         [seen EXCEPT !.pushed =
                            @ \o [k \in 1..Len(v.messages) |->
                                    toResult(filePath, v.messages[k])]])

\* the comparator of results.sort
compare_ignoringFile(a, b) ==
  IF a.line < b.line THEN -1
  ELSE IF a.line > b.line THEN 1
  ELSE a.column - b.column

compare(a, b) ==
  IF FileLess(a.file, b.file) THEN -1
  ELSE IF FileLess(b.file, a.file) THEN 1
  ELSE IF a.line < b.line THEN -1
  ELSE IF a.line > b.line THEN 1
  ELSE a.column - b.column

\* Array.prototype.sort is stable: equal elements keep their order
RECURSIVE InsertResult(_, _)
InsertResult(s, x) ==
  IF s = <<>> THEN <<x>>
  ELSE IF compare(Head(s), x) > 0 THEN <<x>> \o s
  ELSE <<Head(s)>> \o InsertResult(Tail(s), x)

RECURSIVE sortResults(_)
sortResults(s) ==
  IF s = <<>> THEN <<>>
  ELSE InsertResult(sortResults(SubSeq(s, 1, Len(s) - 1)), s[Len(s)])

\* ids numbered from 0
assignIds_fromZero(sorted) ==
  [k \in 1..Len(sorted) |-> [sorted[k] EXCEPT !.id = k - 1]]

\* results.forEach((res, idx) => { res.id = idx + 1; })
assignIds(sorted) ==
  [k \in 1..Len(sorted) |-> [sorted[k] EXCEPT !.id = k]]

\* the sort and the numbering of runAnalysis
sortAndNumber(asPushed) == assignIds(sortResults(asPushed))

\* runAnalysis(targetDir), files being what walk() collected
runAnalysis(proj, files) ==
  LET run == forEachFile(proj, files, 1,
                         [threw |-> "", pushed |-> <<>>, verified |-> {}])
  IN [threw |-> run.threw,
      pushed |-> run.pushed,
      verified |-> run.verified,
      results |-> IF run.threw = "" THEN sortAndNumber(run.pushed) ELSE <<>>]

\* the orders in which readdirSync can list the files of the project
Enumerations(proj) ==
  {s \in [1..Cardinality(DOMAIN proj) -> DOMAIN proj] :
     \A i, j \in DOMAIN s : i # j => s[i] # s[j]}

Projects ==
  UNION {[{FileNames[i] : i \in 1..n} -> Sources] : n \in 1..MaxFiles}

NoReportFile == [exists |-> FALSE, findings |-> <<>>]

\* what a command leaves of its runAnalysis call
RunState(run, files) ==
  /\ enumeration' = files
  /\ pushed' = run.pushed
  /\ results' = run.results
  /\ verified' = run.verified
  /\ threw' = run.threw

\* async-doctor [targetDir] [--json].  An exception that leaves the action
\* ends the process with exit code 1; so does process.exit(1); a command
\* that returns ends it with 0.
AnalyzeCommand(files, json, writeFails) ==
  /\ command' = "analyze"
  /\ LET run == runAnalysis(project, files) IN
       /\ RunState(run, files)
       /\ IF run.threw # ""
            THEN /\ cliExit' = 1 /\ cliCause' = run.threw
                 /\ UNCHANGED reportFile
          ELSE IF json /\ writeFails
            THEN /\ cliExit' = 1 /\ cliCause' = "write"
                 /\ UNCHANGED reportFile
          ELSE IF json
            THEN /\ cliExit' = 0 /\ cliCause' = "saved"
                 /\ reportFile' = [exists |-> TRUE, findings |-> run.results]
          ELSE /\ cliExit' = 0 /\ cliCause' = "printed"
               /\ UNCHANGED reportFile
  /\ UNCHANGED project
  /\ UNCHANGED <<tracerVars, captureVars, correlateVars, jobVars, ruleVars, fixVars>>

\* lineText.slice(0, colIndex) + lineText.slice(colIndex + removeCount)
\* and lines.join('\n'): the lines come from split(/\r?\n/), so the new
\* content has LF line ends.  On the problems: those of the removed token
\* go, later ones of the line move one column to the left
withoutToken(src, line, column) ==
  LET keep == {k \in 1..Len(src.problems) :
                 ~(src.problems[k].line = line /\ src.problems[k].column = column)}
      kept == [n \in 1..Cardinality(keep) |->
                 src.problems[CHOOSE k \in keep :
                                Cardinality({i \in keep : i <= k}) = n]]
      lineText == src.text[line]
  IN [src EXCEPT
        !.eol = "LF",
        !.text[line] = SubSeq(lineText, 1, column - 1)
                         \o SubSeq(lineText, column + 1, Len(lineText)),
        !.problems = [n \in 1..Len(kept) |->
                        IF kept[n].line = line /\ kept[n].column > column
                          THEN [kept[n] EXCEPT !.column = @ - 1]
                          ELSE kept[n]]]

\* spawnSync('npm', ['test']): status 0, another status, or no status
\* (npm could not be started); spawnSync does not throw for any of them
TestOutcomes == {"pass", "fail", "cannotRun"}

\* fs.writeFileSync(filePath, content, 'utf-8')
writeFileSync(proj, filePath, content) == [proj EXCEPT ![filePath] = content]

\* the branch for failed tests without its write
revert_keepsFix(written, filePath, fileContent) == written

\* fs.writeFileSync(filePath, fileContent, 'utf-8') after failed tests
revert(written, filePath, fileContent) ==
  writeFileSync(written, filePath, fileContent)

\* async-doctor fix --id <id>
FixCommand(issueId, files, tests) ==
  /\ command' = "fix"
  /\ LET run == runAnalysis(project, files)
         found == {k \in 1..Len(run.results) : run.results[k].id = issueId}
     IN /\ RunState(run, files)
        /\ IF run.threw # ""
             THEN /\ cliExit' = 1 /\ cliCause' = run.threw
                  /\ UNCHANGED project
           ELSE IF found = {}
             THEN /\ cliExit' = 1 /\ cliCause' = "issueNotFound"
                  /\ UNCHANGED project
           ELSE LET issue == run.results[CHOOSE k \in found : \A j \in found : k <= j]
                    fileContent == project[issue.file]
                    lineText == fileContent.text[issue.line]
                IN IF ~issue.fixable
                     THEN /\ cliExit' = 0 /\ cliCause' = "notFixable"
                          /\ UNCHANGED project
                   ELSE IF issue.column <= Len(lineText)
                           /\ lineText[issue.column] = "await"
                     THEN LET written ==
                                writeFileSync(project, issue.file,
                                  withoutToken(fileContent, issue.line, issue.column))
                          IN IF tests = "pass"
                               THEN /\ cliExit' = 0 /\ cliCause' = "fixed"
                                    /\ project' = written
                               ELSE /\ cliExit' = 1 /\ cliCause' = "testsFailed"
                                    /\ project' = revert(written, issue.file, fileContent)
                   ELSE /\ cliExit' = 0 /\ cliCause' = "awaitNotFound"
                        /\ UNCHANGED project
  /\ UNCHANGED reportFile
  /\ UNCHANGED <<tracerVars, captureVars, correlateVars, jobVars, ruleVars, fixVars>>

(***************************************************************************)
(* Rule listeners (cli/src/rules).                                         *)
(*                                                                         *)
(* The source text is a sequence of tokens and a node's range the          *)
(* positions of its first and last token.  A listener is an operator from  *)
(* the visited node (which carries context.getAncestors(), outermost       *)
(* first) to the sequence of its context.report calls.                     *)
(***************************************************************************)
MaxDepth == 3
MaxStatements == 2

NoFix == [some |-> FALSE, range |-> <<0, 0>>, text |-> <<>>]
Fix(range, text) == [some |-> TRUE, range |-> range, text |-> text]

\* context.report({ node, messageId, fix })
Report(node, messageId, fix) ==
  [type |-> node.type, range |-> node.range, messageId |-> messageId, fix |-> fix]

\* sourceCode.getText(node)
getText_toEnd(source, node) == SubSeq(source, node.range[1], Len(source))

getText(source, node) == SubSeq(source, node.range[1], node.range[2])

\* sourceCode.getFirstToken(node)
getFirstToken(source, node) ==
  [value |-> source[node.range[1]], range |-> <<node.range[1], node.range[1]>>]

\* fixer.remove(token), fixer.replaceText(node, text)
remove(token) == Fix(token.range, <<>>)
replaceText(node, text) == Fix(node.range, text)

\* the text a fix leaves
applyFix(source, fix) ==
  SubSeq(source, 1, fix.range[1] - 1) \o fix.text
    \o SubSeq(source, fix.range[2] + 1, Len(source))

\* the parent of an ancestor: a call x.property(...) the ancestor is an
\* argument of, or a node that is no call
MemberCall(property) ==
  [type |-> "CallExpression",
   callee |-> [type |-> "MemberExpression",
               property |-> [type |-> "Identifier", name |-> property]]]
NoParent ==
  [type |-> "BlockStatement",
   callee |-> [type |-> "none", property |-> [type |-> "none", name |-> ""]]]

\* an entry of context.getAncestors(); the ancestors of a node are the
\* nodes around it that the rules look at, outermost first
Ancestor(type) ==
  [type |-> type, await |-> FALSE, async |-> FALSE, parent |-> NoParent]

AncestorNodes ==
  { Ancestor("TryStatement"),
    Ancestor("ForStatement"), Ancestor("ForInStatement"),
    Ancestor("ForOfStatement"), [Ancestor("ForOfStatement") EXCEPT !.await = TRUE],
    Ancestor("WhileStatement"), Ancestor("DoWhileStatement"),
    Ancestor("FunctionDeclaration"),
    [Ancestor("ArrowFunctionExpression") EXCEPT !.async = TRUE],
    [Ancestor("ArrowFunctionExpression") EXCEPT !.parent = MemberCall("then")],
    [Ancestor("FunctionExpression") EXCEPT !.parent = MemberCall("map")] }

AncestorChains == UNION {[1..n -> AncestorNodes] : n \in 0..MaxDepth}

\* ---- await-in-loop (awaitInLoop.ts) ----
loops ==
  {"ForStatement", "ForInStatement", "ForOfStatement", "WhileStatement",
   "DoWhileStatement"}

\* the loop over the ancestors without its break
RECURSIVE AncestorLoop_noBreak(_, _)
AncestorLoop_noBreak(node, i) ==
  IF i > Len(node.ancestors) THEN <<>>
  ELSE LET ancestor == node.ancestors[i] IN
    IF ancestor.type \notin loops THEN AncestorLoop_noBreak(node, i + 1)
    ELSE IF ancestor.type = "ForOfStatement" /\ ancestor.await
      THEN AncestorLoop_noBreak(node, i + 1)
    ELSE <<Report(node, "noAwaitInLoop", NoFix)>> \o AncestorLoop_noBreak(node, i + 1)

AwaitExpression_noBreak(node) == AncestorLoop_noBreak(node, 1)

\* for (const ancestor of context.getAncestors()) { ... }, from ancestor i
RECURSIVE AncestorLoop(_, _)
AncestorLoop(node, i) ==
  IF i > Len(node.ancestors) THEN <<>>
  ELSE LET ancestor == node.ancestors[i] IN
    IF ancestor.type \notin loops THEN AncestorLoop(node, i + 1)
    ELSE IF ancestor.type = "ForOfStatement" /\ ancestor.await
      THEN AncestorLoop(node, i + 1)
    ELSE <<Report(node, "noAwaitInLoop", NoFix)>>

AwaitExpression(node) == AncestorLoop(node, 1)

AwaitExpressions ==
  {[type |-> "AwaitExpression", range |-> <<2, 3>>,
    source |-> <<"(", "await", "x", ")">>, ancestors |-> chain] :
     chain \in AncestorChains}

\* ---- async-function-awaited-return (asyncFunctionAwaitedReturn.ts) ----
FunctionTypes ==
  {"FunctionDeclaration", "FunctionExpression", "ArrowFunctionExpression"}

\* [...ancestors].reverse().find(...): the index of the innermost function
\* among the ancestors, 0 when there is none
func(ancestors) ==
  LET fs == {i \in 1..Len(ancestors) : ancestors[i].type \in FunctionTypes}
  IN IF fs = {} THEN 0 ELSE CHOOSE i \in fs : \A j \in fs : j <= i

ReturnStatement(node) ==
  IF ~node.hasArgument \/ node.argument.type # "AwaitExpression" THEN <<>>
  ELSE LET ancestors == node.ancestors
           f == func(ancestors)
       IN IF f = 0 \/ ~ancestors[f].async THEN <<>>
          ELSE << Report(node.argument, "noReturnAwait",
                    IF \E i \in 1..Len(ancestors) : ancestors[i].type = "TryStatement"
                      THEN NoFix
                      ELSE remove(getFirstToken(node.source, node.argument))) >>

\* ---- reaction-returns-promise (reactionReturnsPromise.ts) ----
NoCallee ==
  [type |-> "none", object |-> [type |-> "none", name |-> ""],
   property |-> [type |-> "none", name |-> ""]]

\* object.property as the callee of a call
StaticCallee(object, property) ==
  [type |-> "MemberExpression",
   object |-> [type |-> "Identifier", name |-> object],
   property |-> [type |-> "Identifier", name |-> property]]

isPromiseStatic(call, method) ==
  /\ call.callee.type = "MemberExpression"
  /\ call.callee.object.type = "Identifier"
  /\ call.callee.object.name = "Promise"
  /\ call.callee.property.type = "Identifier"
  /\ call.callee.property.name = method

isThenCatchFinallyMember(expr) ==
  /\ expr.property.type = "Identifier"
  /\ expr.property.name \in {"then", "catch", "finally"}

\* context.getAncestors().reverse().find(...): the index of the innermost
\* ancestor that is a function (or arrow) expression passed to then, catch
\* or finally, 0 when there is none
reaction(ancestors) ==
  LET rs == {i \in 1..Len(ancestors) :
               /\ ancestors[i].parent.type = "CallExpression"
               /\ ancestors[i].parent.callee.type = "MemberExpression"
               /\ ancestors[i].type \in {"ArrowFunctionExpression", "FunctionExpression"}
               /\ isThenCatchFinallyMember(ancestors[i].parent.callee)}
  IN IF rs = {} THEN 0 ELSE CHOOSE i \in rs : \A j \in rs : j <= i

\* the ReturnStatement listener of reaction-returns-promise
reactionReturnsPromise(node) ==
  IF ~node.hasArgument \/ node.argument.type # "CallExpression" THEN <<>>
  ELSE IF reaction(node.ancestors) = 0 THEN <<>>
  ELSE LET arg == node.argument
           inner == IF Len(arg.arguments) > 0
                      THEN getText(node.source, arg.arguments[1])
                      ELSE <<"undefined">>
       IN IF isPromiseStatic(arg, "resolve") \/ isPromiseStatic(arg, "reject")
            THEN << Report(arg, "noReturnPromiseInReaction",
                      IF arg.callee.property.name = "resolve"
                        THEN replaceText(node, <<"return">> \o inner \o <<";">>)
                        ELSE replaceText(node, <<"throw">> \o inner \o <<";">>)) >>
            ELSE <<>>

NoArgument == [type |-> "none", range |-> <<0, 0>>, callee |-> NoCallee, arguments |-> <<>>]

\* return object.property(v);
ReturnCall(object, property) ==
  [source |-> <<"return", object, ".", property, "(", "v", ")", ";">>,
   range |-> <<1, 8>>, hasArgument |-> TRUE,
   argument |-> [type |-> "CallExpression", range |-> <<2, 7>>,
                 callee |-> StaticCallee(object, property),
                 arguments |-> << [type |-> "Identifier", range |-> <<6, 6>>] >>]]

ReturnForms ==
  { [source |-> <<"return", "await", "x", ";">>, range |-> <<1, 4>>, hasArgument |-> TRUE,
     argument |-> [NoArgument EXCEPT !.type = "AwaitExpression", !.range = <<2, 3>>]],
    [source |-> <<"return", "x", ";">>, range |-> <<1, 3>>, hasArgument |-> TRUE,
     argument |-> [NoArgument EXCEPT !.type = "Identifier", !.range = <<2, 2>>]],
    [source |-> <<"return", ";">>, range |-> <<1, 2>>, hasArgument |-> FALSE,
     argument |-> NoArgument],
    ReturnCall("Promise", "resolve"), ReturnCall("Promise", "reject"),
    ReturnCall("cache", "resolve") }

ReturnStatements ==
  {[type |-> "ReturnStatement", range |-> form.range, source |-> form.source,
    hasArgument |-> form.hasArgument, argument |-> form.argument,
    ancestors |-> chain] :
     form \in ReturnForms, chain \in AncestorChains}

\* ---- redundant-new-promise-wrapper (redundantNewPromiseWrapper.ts) ----
Expression(type, name, tokens) ==
  [type |-> type, name |-> name, tokens |-> tokens, range |-> <<0, 0>>]
Identifier(name) == Expression("Identifier", name, <<name>>)

\* the expression, its range counted from the token after `at`
Placed(e, at) == [e EXCEPT !.range = <<at + 1, at + Len(e.tokens)>>]

\* a, b, c as the tokens of an argument list, and where argument i starts
RECURSIVE ArgumentTokens(_)
ArgumentTokens(args) ==
  IF args = <<>> THEN <<>>
  ELSE IF Len(args) = 1 THEN args[1].tokens
  ELSE args[1].tokens \o <<",">> \o ArgumentTokens(Tail(args))

RECURSIVE ArgumentOffset(_, _)
ArgumentOffset(args, i) ==
  IF i = 1 THEN 0
  ELSE ArgumentOffset(args, i - 1) + Len(args[i - 1].tokens) + 1

NoExpression == Expression("none", "", <<>>)
NoCall == [type |-> "none", callee |-> NoExpression, arguments |-> <<>>]

\* object.then(args); starting after token `at`; parens: the object is
\* written in parentheses, which its range does not include
ThenStatement(object, parens, args, at) ==
  LET open == IF parens THEN 1 ELSE 0
      calleeLen == Len(object.tokens) + 2 * open + 2
  IN [type |-> "ExpressionStatement",
      tokens |-> (IF parens THEN <<"(">> \o object.tokens \o <<")">> ELSE object.tokens)
                   \o <<".", "then", "(">> \o ArgumentTokens(args) \o <<")", ";">>,
      expression |->
        [type |-> "CallExpression",
         callee |-> [type |-> "MemberExpression",
                     object |-> Placed(object, at + open),
                     property |-> Identifier("then")],
         arguments |-> [i \in 1..Len(args) |->
                          Placed(args[i], at + calleeLen + 1 + ArgumentOffset(args, i))]]]

\* fn(args);
CallStatement(fn, args, at) ==
  [type |-> "ExpressionStatement",
   tokens |-> <<fn, "(">> \o ArgumentTokens(args) \o <<")", ";">>,
   expression |->
     [type |-> "CallExpression",
      callee |-> Placed(Identifier(fn), at),
      arguments |-> [i \in 1..Len(args) |->
                       Placed(args[i], at + 2 + ArgumentOffset(args, i))]]]

\* let z;
OtherStatement(at) ==
  [type |-> "VariableDeclaration", tokens |-> <<"let", "z", ";">>,
   expression |-> NoCall]

\* what an executor's statement can be: [kind, object, parens, args]
Forward(object, parens, args) ==
  [kind |-> "then", object |-> object, parens |-> parens, args |-> args, fn |-> ""]
Settle(fn, args) ==
  [kind |-> "call", object |-> NoExpression, parens |-> FALSE, args |-> args, fn |-> fn]
Other ==
  [kind |-> "other", object |-> NoExpression, parens |-> FALSE, args |-> <<>>, fn |-> ""]

Statement(d, at) ==
  IF d.kind = "then" THEN ThenStatement(d.object, d.parens, d.args, at)
  ELSE IF d.kind = "call" THEN CallStatement(d.fn, d.args, at)
  ELSE OtherStatement(at)

InnerPromises ==
  { [object |-> Identifier("p"), parens |-> FALSE],
    [object |-> Expression("CallExpression", "", <<"load", "(", ")">>), parens |-> FALSE],
    [object |-> Expression("LogicalExpression", "", <<"a", "||", "b">>), parens |-> TRUE] }

ThenArguments ==
  { <<Identifier("resolve"), Identifier("reject")>>,
    <<Identifier("resolve")>>,
    <<Identifier("cb"), Identifier("reject")>> }

StatementForms ==
  {Forward(p.object, p.parens, args) : p \in InnerPromises, args \in ThenArguments}
    \cup {Settle("resolve", <<Identifier("v")>>),
          Settle("resolve", <<Expression("Literal", "", <<"1">>)>>),
          Other}

Bodies == UNION {[1..n -> StatementForms] : n \in 0..MaxStatements}

\* the statements of a body, the first starting after token `at`
RECURSIVE PlaceBody(_, _)
PlaceBody(ds, at) ==
  IF ds = <<>> THEN <<>>
  ELSE LET st == Statement(ds[1], at)
       IN <<st>> \o PlaceBody(Tail(ds), at + Len(st.tokens))

RECURSIVE BodyTokens(_)
BodyTokens(sts) ==
  IF sts = <<>> THEN <<>> ELSE sts[1].tokens \o BodyTokens(Tail(sts))

ExecutorForms == {"arrow", "function", "reference", "none"}
ExecutorParams == {<<>>, <<"resolve">>, <<"resolve", "reject">>}
Callees == {"Promise", "Deferred"}
Prefixes == {<<>>, <<"return">>}

NoExecutor ==
  [type |-> "none", range |-> <<0, 0>>, params |-> <<>>,
   body |-> [type |-> "none", body |-> <<>>]]

\* prefix new callee ( executor ) with an executor of the given form:
\*   (params) => { body }   function (params) { body }   exec   (nothing)
NewExpressionOf(prefix, callee, form, params, ds) ==
  LET paramList == ArgumentTokens([i \in 1..Len(params) |-> Identifier(params[i])])
      head == prefix \o <<"new", callee, "(">>
      intro == IF form = "arrow" THEN <<"(">> \o paramList \o <<")", "=>", "{">>
               ELSE <<"function", "(">> \o paramList \o <<")", "{">>
      sts == PlaceBody(ds, Len(head) + Len(intro))
      inside == IF form \in {"arrow", "function"}
                  THEN intro \o BodyTokens(sts) \o <<"}">>
                ELSE IF form = "reference" THEN <<"exec">>
                ELSE <<>>
      source == head \o inside \o <<")", ";">>
      executor ==
        IF form \in {"arrow", "function"}
          THEN [type |-> IF form = "arrow" THEN "ArrowFunctionExpression"
                         ELSE "FunctionExpression",
                range |-> <<Len(head) + 1, Len(head) + Len(inside)>>,
                params |-> [i \in 1..Len(params) |-> Identifier(params[i])],
                body |-> [type |-> "BlockStatement", body |-> sts]]
          ELSE [NoExecutor EXCEPT !.type = "Identifier",
                                  !.range = <<Len(head) + 1, Len(head) + Len(inside)>>]
  IN [type |-> "NewExpression",
      range |-> <<Len(prefix) + 1, Len(source) - 1>>,
      source |-> source,
      callee |-> Identifier(callee),
      arguments |-> IF form = "none" THEN <<>> ELSE <<executor>>,
      written |-> [prefix |-> prefix, callee |-> callee, form |-> form,
                   params |-> params, body |-> ds]]

NewExpressions ==
  {NewExpressionOf(prefix, "Promise", form, params, ds) :
     prefix \in Prefixes, form \in {"arrow", "function"},
     params \in ExecutorParams, ds \in Bodies}
  \cup {NewExpressionOf(<<>>, callee, form, <<"resolve", "reject">>,
                        <<Forward(Identifier("p"), FALSE,
                                  <<Identifier("resolve"), Identifier("reject")>>)>>) :
          callee \in Callees, form \in ExecutorForms}

isIdent(node, name) == node.type = "Identifier" /\ node.name = name

\* executor.body.body.find(stmt => stmt.type === ExpressionStatement):
\* its index, 0 when there is none
firstExprStmt(executor) ==
  LET es == {i \in 1..Len(executor.body.body) :
               executor.body.body[i].type = "ExpressionStatement"}
  IN IF executor.body.type # "BlockStatement" \/ es = {} THEN 0
     ELSE CHOOSE i \in es : \A j \in es : i <= j

NoReplacement == [isRedundant |-> FALSE, replacement |-> <<>>]

\* p.then(resolve, reject) and p.then(resolve)
forwardedThrough(source, executor) ==
  LET k == firstExprStmt(executor) IN
    IF k = 0 THEN NoReplacement
    ELSE LET thenCall == executor.body.body[k].expression
             member == thenCall.callee
         IN
      IF /\ thenCall.type = "CallExpression"
         /\ member.type = "MemberExpression"
         /\ member.property.type = "Identifier"
         /\ member.property.name = "then"
         /\ Len(thenCall.arguments) >= 1
         /\ Len(executor.params) >= 1
         /\ executor.params[1].type = "Identifier"
         /\ isIdent(thenCall.arguments[1], executor.params[1].name)
        THEN [isRedundant |-> TRUE, replacement |-> getText(source, member.object)]
        ELSE NoReplacement

\* the only statement is resolve(x)
settledWith(source, executor) ==
  IF /\ Len(executor.params) >= 1
     /\ executor.params[1].type = "Identifier"
     /\ executor.body.type = "BlockStatement"
     /\ Len(executor.body.body) = 1
    THEN LET only == executor.body.body[1] IN
      IF /\ only.type = "ExpressionStatement"
         /\ only.expression.type = "CallExpression"
         /\ only.expression.callee.type = "Identifier"
         /\ only.expression.callee.name = executor.params[1].name
         /\ Len(only.expression.arguments) = 1
         /\ only.expression.arguments[1].type
              \in {"Identifier", "CallExpression", "MemberExpression"}
        THEN [isRedundant |-> TRUE,
              replacement |-> getText(source, only.expression.arguments[1])]
        ELSE NoReplacement
    ELSE NoReplacement

NewExpression(node) ==
  IF node.callee.type # "Identifier" \/ node.callee.name # "Promise"
       \/ Len(node.arguments) # 1
    THEN <<>>
  ELSE LET executor == node.arguments[1] IN
    IF executor.type \notin {"FunctionExpression", "ArrowFunctionExpression"}
      THEN <<>>
    ELSE LET first == forwardedThrough(node.source, executor)
             found == IF first.isRedundant THEN first
                      ELSE settledWith(node.source, executor)
         IN IF found.isRedundant /\ found.replacement # <<>>
              THEN << Report(node, "redundantWrapper",
                             replaceText(node, found.replacement)) >>
              ELSE <<>>

\* ---- executor-one-arg-used (executorOneArgUsed.ts) ----
\* isIdentifierUsed(name, func): some identifier of the body has that name
\* and is not the property of a non-computed member expression (the token
\* after a dot).  The bodies of the model hold no nested function, so no
\* parameter shadows the name.
isIdentifierUsed(name, executor) ==
  \E k \in 1..Len(executor.body.body) :
    LET tokens == executor.body.body[k].tokens IN
      \E i \in 1..Len(tokens) :
        tokens[i] = name /\ (i = 1 \/ tokens[i - 1] # ".")

\* the NewExpression listener of executor-one-arg-used
executorOneArgUsed(node) ==
  IF node.callee.type = "Identifier" /\ node.callee.name = "Promise"
       /\ Len(node.arguments) = 1
       /\ node.arguments[1].type \in {"FunctionExpression", "ArrowFunctionExpression"}
    THEN LET executor == node.arguments[1]
             params == executor.params
             usesResolve == Len(params) >= 1 /\ params[1].type = "Identifier"
                              /\ isIdentifierUsed(params[1].name, executor)
             usesReject == Len(params) >= 2 /\ params[2].type = "Identifier"
                             /\ isIdentifierUsed(params[2].name, executor)
         IN IF Len(params) < 2 \/ ~(usesResolve /\ usesReject)
              THEN << Report(executor, "oneArgExecutor", NoFix) >>
              ELSE <<>>
    ELSE <<>>

NoNode == [type |-> "none", range |-> <<0, 0>>]

\* the traversal reaches a node and calls the listeners the rules have for
\* it, in the order in which runAnalysis defines the rules (of the rules
\* above; custom-promisification and async-executor-in-promise, which
\* listen to NewExpression as well, are left out)
VisitAwaitExpression(node) ==
  /\ visited' = node
  /\ reports' = AwaitExpression(node)
  /\ UNCHANGED <<tracerVars, captureVars, correlateVars, jobVars, cliVars, fixVars>>

VisitReturnStatement(node) ==
  /\ visited' = node
  /\ reports' = ReturnStatement(node) \o reactionReturnsPromise(node)
  /\ UNCHANGED <<tracerVars, captureVars, correlateVars, jobVars, cliVars, fixVars>>

VisitNewExpression(node) ==
  /\ visited' = node
  /\ reports' = executorOneArgUsed(node) \o NewExpression(node)
  /\ UNCHANGED <<tracerVars, captureVars, correlateVars, jobVars, cliVars, fixVars>>

\* the listener has returned and the traversal goes on
LeaveNode ==
  /\ visited # NoNode
  /\ visited' = NoNode
  /\ reports' = <<>>
  /\ UNCHANGED <<tracerVars, captureVars, correlateVars, jobVars, cliVars, fixVars>>

(***************************************************************************)
(* AI fix requests (server.ts): POST /jobs/:jobId/ai/fix and               *)
(* replaceFunctionInFile.                                                  *)
(*                                                                         *)
(* A text file is the lines that content.split(/\r?\n/) gives and the      *)
(* terminator they are joined with.  The handler awaits the AI service     *)
(* once: a request is served in two steps, and other requests can be       *)
(* served between them.  The requests carry funcStart and funcSnippet of   *)
(* a finding of the report the client holds, which was made from the file  *)
(* as it was at first.                                                     *)
(***************************************************************************)
MaxFixLines == 3

TextFile(lines, eol) == [exists |-> TRUE, lines |-> lines, eol |-> eol]
NoTextFile == [exists |-> FALSE, lines |-> <<>>, eol |-> "LF"]

\* lines.slice(from, to): 0-based, to exclusive, both clamped to the length
slice(lines, from, to) ==
  LET a == IF from > Len(lines) THEN Len(lines) ELSE from
      b == IF to > Len(lines) THEN Len(lines) ELSE to
  IN IF a >= b THEN <<>> ELSE SubSeq(lines, a + 1, b)

\* replaceFunctionInFile(absFile, funcStart, currentFunc, newFunc): the
\* file and its backup afterwards.  bakFails: writing absFile + '.bak'
\* throws, which the empty catch swallows.
replaceFunctionInFile(content, backup, funcStart, currentFunc, newFunc, bakFails) ==
  LET lines == content.lines
      currLen == Len(currentFunc)
      startIdx == IF funcStart - 1 > 0 THEN funcStart - 1 ELSE 0
      endIdx == startIdx + currLen
      next == slice(lines, 0, startIdx) \o newFunc \o slice(lines, endIdx, Len(lines))
  IN [bak |-> IF bakFails THEN backup ELSE content,
      file |-> TextFile(next, "LF")]

\* the file the report was made from, and the two functions with findings
OriginalLines == <<"top", "f1a", "f1b", "mid", "f2a", "f2b", "end">>
Functions ==
  << [funcStart |-> 2, funcSnippet |-> <<"f1a", "f1b">>],
     [funcStart |-> 5, funcSnippet |-> <<"f2a", "f2b">>] >>

\* ai.fixed_function for function f: shorter than, as long as, or longer
\* than the function it replaces
FixedLines == << <<"g1a", "g1b", "g1c", "g1d", "g1e">>,
                 <<"g2a", "g2b", "g2c", "g2d", "g2e">> >>
FixedFunctions(f) == {SubSeq(FixedLines[f], 1, n) : n \in 1..MaxFixLines}

Requesters == {1, 2}
Idle ==
  [pc |-> "idle", target |-> 0, apply |-> FALSE, status |-> Undefined,
   fixedFunction |-> <<>>]

\* POST /jobs/:jobId/ai/fix up to `await askOllamaForFix(...)`, the request
\* carrying its required fields for function f
PostAiFix(r, f, apply) ==
  /\ requests[r].pc = "idle"
  /\ IF ~projectExists \/ ~targetFile.exists
       THEN /\ requests' = [requests EXCEPT ![r] =
                              [@ EXCEPT !.pc = "done", !.target = f,
                                        !.apply = apply, !.status = 404]]
            /\ response' = Failure(404)
       ELSE /\ requests' = [requests EXCEPT ![r] =
                              [@ EXCEPT !.pc = "awaiting", !.target = f,
                                        !.apply = apply]]
            /\ UNCHANGED response
  /\ lastOp' = "fix"
  /\ UNCHANGED <<targetFile, backupFile, fileWrites>>
  /\ UNCHANGED <<antiPatterns, executions, jobDir, projectExists, analyses,
                 lastUpload, lastAnalysis, lastOverlay, okUploads,
                 overlayAnalysis, jobOps>>
  /\ UNCHANGED <<tracerVars, captureVars, correlateVars, cliVars, ruleVars>>

\* the rest of the handler, once the AI service has answered (aiOk) or
\* failed.  rep: what runAnalysis(root) returns for the changed project.
AiAnswers(r, aiOk, newFunc, bakFails, rep) ==
  /\ requests[r].pc = "awaiting"
  /\ LET req == requests[r]
         fn == Functions[req.target]
     IN IF ~aiOk
          THEN /\ requests' = [requests EXCEPT ![r] =
                                 [@ EXCEPT !.pc = "done", !.status = 500]]
               /\ response' = Failure(500)
               /\ UNCHANGED <<targetFile, backupFile, fileWrites, antiPatterns,
                              analyses, lastAnalysis>>
        ELSE IF ~req.apply
          THEN /\ requests' = [requests EXCEPT ![r] =
                                 [@ EXCEPT !.pc = "done", !.status = 200,
                                           !.fixedFunction = newFunc]]
               /\ response' = Reply(200, EmptyObject)
               /\ UNCHANGED <<targetFile, backupFile, fileWrites, antiPatterns,
                              analyses, lastAnalysis>>
        ELSE LET done == replaceFunctionInFile(targetFile, backupFile, fn.funcStart,
                                               fn.funcSnippet, newFunc, bakFails)
                 result == ReportDoc(rep)
             IN /\ targetFile' = done.file
                /\ backupFile' = done.bak
                /\ fileWrites' = fileWrites + 1
                /\ analyses' = analyses + 1
                /\ lastAnalysis' = result
                /\ antiPatterns' = writeJSON(result)
                /\ response' =
                     IF executions.exists
                       THEN IF mergeThrows(result, readJSON(executions))
                              THEN Failure(500)
                              ELSE Reply(200, mergeDoc(result, readJSON(executions)))
                       ELSE Reply(200, result)
                /\ requests' = [requests EXCEPT ![r] =
                                  [@ EXCEPT !.pc = "done", !.status = 200,
                                            !.fixedFunction = newFunc]]
  /\ lastOp' = "fix"
  /\ UNCHANGED <<executions, jobDir, projectExists, lastUpload, lastOverlay,
                 okUploads, overlayAnalysis, jobOps>>
  /\ UNCHANGED <<tracerVars, captureVars, correlateVars, cliVars, ruleVars>>


(***************************************************************************)
(* Specifications.                                                         *)
(***************************************************************************)
TracerAtRest ==
  /\ clock = 0 /\ t0 = 0 /\ events = EmptyMap /\ nextAsyncId = 1
  /\ pc = "exited" /\ pendingWork = 0 /\ hostListens = {}
  /\ exitCause = "none" /\ exitCode = Undefined
  /\ traceFile = NoFile /\ firstTrace = NoFile /\ writes = 0 /\ flushCalls = 0
  /\ ioFailed = FALSE /\ propagated = FALSE /\ failLogged = FALSE
  /\ lateCb = FALSE

CaptureAtRest == stack = <<F_tracer>> /\ captured = NotCaptured

CorrelateAtRest ==
  /\ report = [findings |-> <<>>] /\ traceEvents = <<>>
  /\ overlay = NoOverlay /\ usedOverlay = NoOverlay
  /\ reportBefore = [findings |-> <<>>] /\ merged = NoMerged
  /\ merges = 0 /\ otherBefore = FALSE

JobsAtRest ==
  /\ antiPatterns = Missing /\ executions = Missing /\ jobDir = FALSE
  /\ projectExists = FALSE /\ analyses = 0 /\ response = NoResponse
  /\ lastOp = "none" /\ lastUpload = NoUpload
  /\ lastAnalysis = EmptyObject /\ lastOverlay = EmptyObject
  /\ okUploads = 0 /\ overlayAnalysis = 0 /\ jobOps = 0

CliAtRest ==
  /\ project = [f \in {} |-> CleanSource] /\ enumeration = <<>>
  /\ pushed = <<>> /\ results = <<>> /\ verified = {} /\ threw = ""
  /\ command = "none" /\ cliExit = Undefined /\ cliCause = ""
  /\ reportFile = NoReportFile

RulesAtRest == visited = NoNode /\ reports = <<>>

FixAtRest ==
  /\ targetFile = NoTextFile /\ backupFile = NoTextFile /\ fileWrites = 0
  /\ requests = [r \in Requesters |-> Idle]

\* the tracer module has just been loaded into the host process
InitTracer ==
  /\ t0 = LoadTime
  /\ clock = t0
  /\ events = EmptyMap
  /\ nextAsyncId = 1
  /\ pc = "running"
  /\ pendingWork = 1
  /\ hostListens \in {{}, Signals}
  /\ exitCause = "none" /\ exitCode = Undefined
  /\ traceFile = NoFile /\ firstTrace = NoFile /\ writes = 0 /\ flushCalls = 0
  /\ ioFailed = FALSE /\ propagated = FALSE /\ failLogged = FALSE
  /\ lateCb = FALSE
  /\ CaptureAtRest /\ CorrelateAtRest /\ JobsAtRest /\ CliAtRest /\ RulesAtRest /\ FixAtRest

NextTracer ==
  \/ \E type \in AsyncTypes, lines \in TracedStacks :
       init(nextAsyncId, type, nextAsyncId - 1, lines)
  \/ \E asyncId \in 1..MaxAsyncIds : promiseResolve(asyncId)
  \/ \E asyncId \in 1..MaxAsyncIds : destroy(asyncId)
  \/ Tick
  \/ \E mk, wr \in BOOLEAN : EmitBeforeExit(mk, wr)
  \/ HostSchedulesWork
  \/ HostWorkDone
  \/ \E mk, wr \in BOOLEAN : EmitExit(mk, wr)
  \/ \E code \in HostExitCodes, mk, wr \in BOOLEAN : HostProcessExit(code, mk, wr)
  \/ \E sig \in Signals, mk, wr, mk2, wr2 \in BOOLEAN : Signal(sig, mk, wr, mk2, wr2)

SpecTracer == InitTracer /\ [][NextTracer]_vars

InitCapture ==
  /\ CaptureAtRest
  /\ TracerAtRest /\ CorrelateAtRest /\ JobsAtRest /\ CliAtRest /\ RulesAtRest /\ FixAtRest

NextCapture ==
  \/ \E f \in Frames : PushFrame(f)
  \/ Capture
  \/ NextStack

SpecCapture == InitCapture /\ [][NextCapture]_vars

InitCorrelate ==
  /\ report \in Reports
  /\ reportBefore = report
  /\ traceEvents = <<>>
  /\ overlay = NoOverlay /\ usedOverlay = NoOverlay
  /\ merged = NoMerged
  /\ merges = 0 /\ otherBefore = FALSE
  /\ TracerAtRest /\ CaptureAtRest /\ JobsAtRest /\ CliAtRest /\ RulesAtRest /\ FixAtRest

NextCorrelate ==
  \/ \E evs \in EventLists : CrossReference(evs)
  \/ Merge

SpecCorrelate == InitCorrelate /\ [][NextCorrelate]_vars

\* POST /analyze has just stored the report of its analysis run
InitJobs ==
  /\ \E rep \in JobReports :
       /\ antiPatterns = writeJSON(ReportDoc(rep))
       /\ lastAnalysis = ReportDoc(rep)
  /\ executions = Missing
  /\ jobDir = TRUE
  /\ projectExists = TRUE
  /\ analyses = 1
  /\ response = NoResponse
  /\ lastOp = "analyze"
  /\ lastUpload = NoUpload
  /\ lastOverlay = EmptyObject
  /\ okUploads = 0
  /\ overlayAnalysis = 0
  /\ jobOps = 0
  /\ TracerAtRest /\ CaptureAtRest /\ CorrelateAtRest /\ CliAtRest /\ RulesAtRest /\ FixAtRest

NextJobs ==
  \/ \E name \in UploadNames, doc \in UploadDocs : UploadTrace(name, doc)
  \/ GetReport
  \/ \E apply, aiOk \in BOOLEAN, rep \in JobReports : FixApply(apply, aiOk, rep)
  \/ DeleteJob

SpecJobs == InitJobs /\ [][NextJobs]_vars

\* a project directory before the first command is run in it
InitCli ==
  /\ project \in Projects
  /\ enumeration = <<>>
  /\ pushed = <<>> /\ results = <<>> /\ verified = {} /\ threw = ""
  /\ command = "none" /\ cliExit = Undefined /\ cliCause = ""
  /\ reportFile = NoReportFile
  /\ TracerAtRest /\ CaptureAtRest /\ CorrelateAtRest /\ JobsAtRest /\ RulesAtRest /\ FixAtRest

\* one invocation of the command line: the process runs one command and exits
NextCli ==
  \/ command = "none" /\
       \E files \in Enumerations(project), json \in BOOLEAN :
         \E writeFails \in {w \in BOOLEAN : json \/ ~w} :
           AnalyzeCommand(files, json, writeFails)
  \/ command = "none" /\
       \E issueId \in 1..(MaxFiles + 1), files \in Enumerations(project),
          tests \in TestOutcomes :
         FixCommand(issueId, files, tests)

SpecCli == InitCli /\ [][NextCli]_vars

InitRules ==
  /\ RulesAtRest
  /\ TracerAtRest /\ CaptureAtRest /\ CorrelateAtRest /\ JobsAtRest /\ CliAtRest /\ FixAtRest

\* one listener call at a time
NextRules ==
  \/ visited = NoNode /\ \E node \in AwaitExpressions : VisitAwaitExpression(node)
  \/ visited = NoNode /\ \E node \in ReturnStatements : VisitReturnStatement(node)
  \/ visited = NoNode /\ \E node \in NewExpressions : VisitNewExpression(node)
  \/ LeaveNode

SpecRules == InitRules /\ [][NextRules]_vars

\* a job whose analysis stored a report of the file as it is, no request
\* made yet
InitFix ==
  /\ \E eol \in {"LF", "CRLF"} : targetFile = TextFile(OriginalLines, eol)
  /\ backupFile = NoTextFile
  /\ fileWrites = 0
  /\ requests = [r \in Requesters |-> Idle]
  /\ \E rep \in JobReports :
       /\ antiPatterns = writeJSON(ReportDoc(rep))
       /\ lastAnalysis = ReportDoc(rep)
  /\ executions = Missing
  /\ jobDir = TRUE
  /\ projectExists = TRUE
  /\ analyses = 1
  /\ response = NoResponse
  /\ lastOp = "analyze"
  /\ lastUpload = NoUpload
  /\ lastOverlay = EmptyObject
  /\ okUploads = 0
  /\ overlayAnalysis = 0
  /\ jobOps = 0
  /\ TracerAtRest /\ CaptureAtRest /\ CorrelateAtRest /\ CliAtRest /\ RulesAtRest

NextFix ==
  \/ \E r \in Requesters, f \in 1..Len(Functions), apply \in BOOLEAN :
       PostAiFix(r, f, apply)
  \/ \E r \in Requesters :
       /\ requests[r].pc = "awaiting"
       /\ \E aiOk, bakFails \in BOOLEAN,
             newFunc \in FixedFunctions(requests[r].target), rep \in JobReports :
            AiAnswers(r, aiOk, newFunc, bakFails, rep)

SpecFix == InitFix /\ [][NextFix]_vars


(***************************************************************************)
(* Properties of the tracer (SpecTracer).                                  *)
(***************************************************************************)
\* C1: once an event's end timestamp is set, no later promiseResolve or
\* destroy callback (no step at all) changes it: first transition wins.
C1_EndSetOnce ==
  [][\A id \in DOMAIN events :
       events[id].end # Undefined =>
         (id \in DOMAIN events' /\ events'[id].end = events[id].end)]_vars

\* a callback came for an event already closed, at a later clock reading
C1_LateCallbackSeen ==
  /\ lateCb
  /\ \E id \in DOMAIN events :
       events[id].end # Undefined /\ events[id].end < nowRel

\* C2: in every termination scenario in which no file operation fails, the
\* events have been written to the trace output exactly once when the
\* process has exited.
C2_FlushedExactlyOnce ==
  (pc = "exited" /\ ~ioFailed) => writes = 1

\* C3: every flush after the first is a no-op or writes the content the
\* first one wrote, whatever callbacks ran in between: the trace output
\* always holds what the first successful write put there.
C3_LaterFlushSameContent ==
  writes >= 1 => traceFile = firstTrace

\* C4: a failing mkdirSync or writeFileSync inside flush never lets an
\* exception leave flush; a failure is at most logged.
C4_FlushNeverThrows ==
  /\ ~propagated
  /\ failLogged => ioFailed

\* both the beforeExit flush and the exit flush failed, and the process
\* still ran to its exit
C4_FailedFlushesSeen ==
  pc = "exited" /\ failLogged /\ writes = 0 /\ flushCalls >= 2

\* the signal the tracer's own listener ended the process on
ExitSignal == IF exitCode = SignalExitCode("SIGINT") THEN "SIGINT" ELSE "SIGTERM"

\* C5: the tracer only observes: it does not end the process on a signal
\* the host program handles itself (nor keep the host's handler from
\* running).
C5_TracerOnlyObserves ==
  exitCause = "tracerExit" => ExitSignal \notin hostListens

\* C6: in every written trace, an event that has an end has end >= start.
C6_EndNotBeforeStart ==
  \A i \in 1..Len(traceFile.data) :
    traceFile.data[i].end # Undefined =>
      traceFile.data[i].end >= traceFile.data[i].start

\* a written trace holds an event closed after the clock moved on
C6_ClosedEventFlushed ==
  /\ traceFile.exists
  /\ \E i \in 1..Len(traceFile.data) :
       traceFile.data[i].end # Undefined /\
       traceFile.data[i].end > traceFile.data[i].start

(***************************************************************************)
(* Properties of captureLocation (SpecCapture).                            *)
(***************************************************************************)
\* frames left after skipping runtime-internal and tracer frames, that
\* carry a file location
Remaining(lines) ==
  {i \in 1..Len(lines) :
     /\ ~isInternalFrame(lines[i])
     /\ ~isTracerFrame(lines[i])
     /\ extractFileLoc(lines[i]) # NoLoc}

\* user code under the project root: under CWD, in no dependency
\* directory, and no I/O primitive
UserFrames(lines) ==
  {i \in Remaining(lines) :
     /\ StartsWithCwd(extractFileLoc(lines[i]))
     /\ ~InNodeModules(extractFileLoc(lines[i]))
     /\ LineWords(lines[i]) \cap IOWords = {}}

\* C7: if some remaining frame is user code under the project root, the
\* first such frame is chosen with origin "user"; a library or io frame is
\* chosen only when there is none; with no remaining frame, location and
\* origin stay undefined.
C7_UserFramePreferred ==
  captured.called =>
    IF UserFrames(stack) # {}
      THEN LET u == CHOOSE i \in UserFrames(stack) : \A j \in UserFrames(stack) : i <= j
           IN captured.location = extractFileLoc(stack[u]) /\ captured.origin = "user"
    ELSE IF Remaining(stack) = {}
      THEN captured.location = NoLoc /\ captured.origin = "undefined"
    ELSE /\ captured.origin \in {"library", "io"}
         /\ \E i \in Remaining(stack) : captured.location = extractFileLoc(stack[i])

(***************************************************************************)
(* Properties of the correlator and the merger (SpecCorrelate).            *)
(***************************************************************************)
\* The event's location, read as "path:line[:col]", names finding f's
\* project-relative file and a line within f's function range.
Executes(ev, f) ==
  LET loc == ev.location IN
  /\ Len(loc) \in {2, 3}
  /\ loc[1] = Text(Root, f.file)
  /\ loc[2].num
  /\ Len(loc) = 3 => loc[3].num
  /\ loc[2].n >= f.funcStart
  /\ loc[2].n <= f.funcStart + SplitLength(f.funcSnippet) - 1

ExecutionsOf(f) ==
  Cardinality({i \in 1..Len(traceEvents) : Executes(traceEvents[i], f)})

\* C8: execCounts[f.id] is the number of events located in f's file and
\* function range; a finding with no such event has no entry.
C8_ExecCountsExact ==
  overlay # NoOverlay =>
    \A k \in 1..Len(report.findings) :
      LET f == report.findings[k] IN
      IF ExecutionsOf(f) = 0
        THEN f.id \notin DOMAIN overlay.execCounts
        ELSE /\ f.id \in DOMAIN overlay.execCounts
             /\ overlay.execCounts[f.id] = ExecutionsOf(f)

\* C9: every event, also one without a usable location or outside every
\* range, counts in the total and in the user/library tallies, and only
\* events located in a finding's range count for that finding.
C9_AllEventsTallied ==
  overlay # NoOverlay =>
    /\ overlay.summary.totalTraceEvents = Len(traceEvents)
    /\ overlay.summary.userEvents =
         Cardinality({i \in 1..Len(traceEvents) : traceEvents[i].origin = "user"})
    /\ overlay.summary.libEvents =
         Cardinality({i \in 1..Len(traceEvents) : traceEvents[i].origin # "user"})
    /\ \A k \in 1..Len(report.findings) :
         report.findings[k].id \in DOMAIN overlay.execCounts =>
           overlay.execCounts[report.findings[k].id] <= ExecutionsOf(report.findings[k])

\* m is the static report rep with each finding's execCount taken from ov
\* alone (0 when ov has no entry) and ov's summary attached
IsMergeOf(m, rep, ov) ==
  /\ m.dynamic = ov.summary
  /\ Len(m.findings) = Len(rep.findings)
  /\ \A i \in 1..Len(rep.findings) :
       LET f == rep.findings[i]
           g == m.findings[i]
       IN /\ g.id = f.id /\ g.file = f.file /\ g.line = f.line /\ g.rule = f.rule
          /\ g.funcStart = f.funcStart /\ g.funcSnippet = f.funcSnippet
          /\ g.execCount = (IF f.id \in DOMAIN ov.execCounts
                              THEN ov.execCounts[f.id] ELSE 0)

\* C10: a merge leaves the static report and the overlay as they were, and
\* its result is made of the static report and the overlay it was handed,
\* whatever overlay an earlier merge was handed.
C10_MergeIsPure ==
  [][merges' = merges + 1 =>
       /\ report' = report
       /\ overlay' = overlay
       /\ IsMergeOf(merged', report, overlay)]_vars

\* the same static report was merged with two different overlays in turn,
\* the first of which counted an execution the second does not
C10_TwoOverlaysMerged ==
  /\ merges >= 2
  /\ otherBefore
  /\ \E i \in 1..Len(merged.findings) : merged.findings[i].execCount = 0


(***************************************************************************)
(* Properties of the job routes (SpecJobs).                                *)
(***************************************************************************)
\* C11: reading the report of a job whose analysis has stored a static
\* report returns, once a trace upload has succeeded, that report's findings
\* merged with the overlay of the most recent successful upload, and the
\* static report alone as long as no upload has succeeded.
C11_ReportReflectsLatestTrace ==
  (lastOp = "report" /\ projectExists) =>
    response = IF okUploads > 0
                 THEN Reply(200, mergeDoc(lastAnalysis, lastOverlay))
                 ELSE Reply(200, lastAnalysis)


\* the content of the last upload is neither an array nor an object with an
\* events array
MalformedTrace == ~lastUpload.doc.array /\ ~lastUpload.doc.hasEvents

\* C12: a trace file uploaded for an analysed job whose content is neither
\* an array nor an object with an events array is taken as an empty event
\* list: the upload is answered 200, the stored overlay has empty execCounts
\* and zero totals, and every finding of the answer has execCount 0.
C12_MalformedTraceIsEmpty ==
  (lastOp = "upload" /\ projectExists /\ lastUpload.name # ""
     /\ fileFilter(lastUpload.name) /\ MalformedTrace) =>
    /\ response.status = 200
    /\ executions = Stored(OverlayDoc(crossReference(Root, [findings |-> <<>>], <<>>)))
    /\ \A i \in 1..Len(response.body.findings) :
         response.body.findings[i].execCount = 0


(***************************************************************************)
(* Properties of the analyzer command line (SpecCli).                      *)
(***************************************************************************)
\* the last command ran runAnalysis to its return, on the project as it is
Returned == command # "none" /\ threw = "" /\ cliCause # "fixed"

\* the arrays holding the elements of s in another order
Reorderings(s) ==
  {[i \in 1..Len(s) |-> s[p[i]]] :
     p \in {q \in [1..Len(s) -> 1..Len(s)] :
              \A i, j \in 1..Len(s) : i # j => q[i] # q[j]}}

\* C13 (as stated): the ids of the findings depend only on their (file,
\* line, column) keys after the sort, never on the order in which the
\* findings were inserted: sorting and numbering the pushed findings in any
\* other insertion order gives the returned findings.
C13_IdsIgnoreInsertionOrder ==
  Returned => \A q \in Reorderings(pushed) : sortAndNumber(q) = results

\* C13 (amended): for fixed file contents every enumeration order of the
\* files yields the same ordered findings with the same ids (findings with
\* the same key are numbered in the order the linter reported them for
\* their file), and a run that throws does so under every order.
C13_IdsIgnoreEnumerationOrder ==
  (command # "none" /\ cliCause # "fixed") =>
    \A files \in Enumerations(project) :
      LET run == runAnalysis(project, files)
      IN run.results = results /\ (run.threw = "") = (threw = "")

\* findings of two files, pushed in descending order of the file names,
\* were returned in ascending order
C13_ShuffledFilesSeen ==
  /\ Returned
  /\ Len(enumeration) >= 2 /\ FileLess(enumeration[2], enumeration[1])
  /\ Len(results) >= 2
  /\ results[1].file = enumeration[2]
  /\ results[Len(results)].file = enumeration[1]


\* (file, line, column) of a is not after that of b
KeyNotAfter(a, b) ==
  \/ FileLess(a.file, b.file)
  \/ a.file = b.file /\ a.line < b.line
  \/ a.file = b.file /\ a.line = b.line /\ a.column <= b.column

\* C14: in every report runAnalysis returns the findings are in
\* non-decreasing (file, line, column) order and the finding at position k
\* has id k, so the ids are exactly 1..n.
C14_SortedAndNumbered ==
  Returned =>
    /\ \A k \in 1..Len(results) : results[k].id = k
    /\ \A k \in 1..(Len(results) - 1) : KeyNotAfter(results[k], results[k + 1])
    /\ {results[k].id : k \in 1..Len(results)} = 1..Len(results)

\* at least three findings were returned and the sort had to move one
C14_ReorderedReportSeen ==
  /\ Returned
  /\ Len(results) >= 3
  /\ \E k \in 1..Len(results) :
       [results[k] EXCEPT !.id = 0] # pushed[k]


\* the files of the project that the linter cannot parse
Unparsable == {f \in DOMAIN project : ~project[f].parses}

\* no file of the project is unreadable and no rule throws on any
Harmless ==
  \A f \in DOMAIN project : project[f].readable /\ ~project[f].throws

\* C15: when a source file fails to parse the run does not abort, the file
\* is skipped so that it contributes no finding to the report, and all the
\* remaining files are still analysed.
C15_ParseFailureSkipsFile ==
  (command = "analyze" /\ Harmless /\ Unparsable # {}) =>
    /\ threw = ""
    /\ \A k \in 1..Len(results) : results[k].file \notin Unparsable
    /\ verified = DOMAIN project

\* the project as it would be with every rule catching its own exception:
\* a throw is no match, so the file keeps the problems the rules reported
WithThrowsCaught ==
  [f \in DOMAIN project |-> [project[f] EXCEPT !.throws = FALSE]]

C17_NonzeroOnlyOnInternalFailure ==
  command # "none" =>
    /\ cliExit \in {0, 1}
    /\ (cliExit # 0) => cliCause \in {"read", "write"}
    /\ (cliCause \in {"saved", "printed"}) => cliExit = 0


(***************************************************************************)
(* Properties of the rules (SpecRules).                                    *)
(***************************************************************************)
\* the ancestors that are loops other than `for await`
OrdinaryLoops(ancestors) ==
  {i \in 1..Len(ancestors) :
     /\ ancestors[i].type \in loops
     /\ ~(ancestors[i].type = "ForOfStatement" /\ ancestors[i].await)}

\* C18: await-in-loop reports exactly one finding, located at the await,
\* when at least one enclosing loop is a for, for-in, for-of, while or
\* do-while loop that is not a `for await` loop, however many loops are
\* nested around the await; it reports nothing when every enclosing loop is
\* a `for await` loop or there is no enclosing loop.
C18_OneReportPerAwaitInLoop ==
  visited.type = "AwaitExpression" =>
    IF OrdinaryLoops(visited.ancestors) # {}
      THEN /\ Len(reports) = 1
           /\ reports[1].type = "AwaitExpression"
           /\ reports[1].range = visited.range
           /\ reports[1].messageId = "noAwaitInLoop"
      ELSE reports = <<>>

\* an await inside two or more nested ordinary loops was reported once
C18_NestedLoopsSeen ==
  /\ visited.type = "AwaitExpression"
  /\ Cardinality(OrdinaryLoops(visited.ancestors)) >= 2
  /\ Len(reports) = 1


\* the visited node is `return await x` and its nearest enclosing function
\* is async
ReturnAwaitInAsync ==
  /\ visited.type = "ReturnStatement"
  /\ visited.hasArgument
  /\ visited.argument.type = "AwaitExpression"
  /\ func(visited.ancestors) # 0
  /\ visited.ancestors[func(visited.ancestors)].async

\* the return sits in a try statement of its nearest enclosing function
InTryOfFunction ==
  \E i \in (func(visited.ancestors) + 1)..Len(visited.ancestors) :
    visited.ancestors[i].type = "TryStatement"

\* C19: every `return await x` whose nearest enclosing function is async is
\* reported; the report carries no fix exactly when the return sits inside
\* a try block of that function, and otherwise the fix removes only the
\* await keyword.
C19_FixWithheldOnlyInTryOfFunction ==
  ReturnAwaitInAsync =>
    /\ Len(reports) = 1
    /\ reports[1].range = visited.argument.range
    /\ reports[1].messageId = "noReturnAwait"
    /\ IF InTryOfFunction
         THEN ~reports[1].fix.some
         ELSE /\ reports[1].fix.some
              /\ applyFix(visited.source, reports[1].fix) = <<"return", "x", ";">>


\* the visited node is new Promise((resolve, reject) => { p.then(resolve,
\* reject); }), the executor an arrow function or a function expression
ForwardsBoth ==
  /\ visited.type = "NewExpression"
  /\ visited.written.callee = "Promise"
  /\ visited.written.form \in {"arrow", "function"}
  /\ visited.written.params = <<"resolve", "reject">>
  /\ Len(visited.written.body) = 1
  /\ visited.written.body[1].kind = "then"
  /\ visited.written.body[1].args = <<Identifier("resolve"), Identifier("reject")>>

\* C20: for new Promise((resolve, reject) => { p.then(resolve, reject); })
\* redundant-new-promise-wrapper reports the construction, and its fix
\* replaces the whole new Promise(...) expression with exactly the source
\* text of p.
C20_FixIsInnerPromiseText ==
  ForwardsBoth =>
    /\ Len(reports) = 1
    /\ reports[1].type = "NewExpression"
    /\ reports[1].range = visited.range
    /\ reports[1].fix.some
    /\ reports[1].fix.range = visited.range
    /\ reports[1].fix.text = visited.written.body[1].object.tokens
    /\ applyFix(visited.source, reports[1].fix)
         = visited.written.prefix \o visited.written.body[1].object.tokens \o <<";">>

\* a wrapper that follows other text and whose p is written in parentheses
\* was reported
C20_ParenthesisedPromiseSeen ==
  /\ ForwardsBoth
  /\ visited.written.prefix # <<>>
  /\ visited.written.body[1].parens
  /\ Len(reports) = 1


(***************************************************************************)
(* Further properties of the job store (SpecJobs).                         *)
(***************************************************************************)
\* C27: a trace upload, whatever the name and content of the uploaded file
\* and whether it is answered with success or not, never creates, changes
\* or removes the stored static report, and a rejected upload for a job
\* without a static report leaves the job store unchanged.
C27_UploadKeepsStaticReport ==
  [][(lastOp' = "upload" /\ jobOps' = jobOps + 1) =>
       /\ antiPatterns' = antiPatterns
       /\ (~antiPatterns.exists /\ response'.status # 200) =>
            (executions' = executions /\ jobDir' = jobDir)]_vars

\* C28: every merged report joins a static report with an overlay that was
\* correlated against that very report: the stored overlay is never merged
\* with the report of a later analysis run.
C28_OverlayOfSameAnalysis ==
  (response.status = 200 /\ response.body.hasDynamic) =>
    overlayAnalysis = analyses


(***************************************************************************)
(* Further properties of the tracer (SpecTracer).                          *)
(***************************************************************************)
\* C22: after the first flush the event store is frozen: no later init
\* callback adds an event and no later promiseResolve or destroy callback
\* sets an event's end.
C22_FrozenAfterFirstFlush ==
  [][flushCalls >= 1 => events' = events]_vars


(***************************************************************************)
(* Further properties of the correlator (SpecCorrelate).                   *)
(***************************************************************************)
\* the sum of the execCounts the overlay holds for findings k.. of rule
RECURSIVE RuleExecCount(_, _)
RuleExecCount(rule, k) ==
  IF k > Len(report.findings) THEN 0
  ELSE (IF report.findings[k].rule = rule
          THEN ExecCountOf(overlay, report.findings[k]) ELSE 0)
       + RuleExecCount(rule, k + 1)

\* the findings with at least one execution in the overlay
ExecutedFindings ==
  {k \in 1..Len(report.findings) : ExecCountOf(overlay, report.findings[k]) >= 1}

C30_FailedFixLeavesFiles ==
  [][(command' = "fix" /\ cliCause' \in {"testsFailed", "awaitNotFound", "notFixable"})
       => project' = project]_vars

\* a fix was written to a file with CRLF line ends (every file of the
\* project has them) and the tests failed
C30_RevertedCrlfFixSeen ==
  /\ command = "fix" /\ cliCause = "testsFailed"
  /\ \A f \in DOMAIN project : project[f].eol = "CRLF"


(***************************************************************************)
(* Further properties of the rules (SpecRules).                            *)
(***************************************************************************)
\* the reports of one rule among those made for the visited node
ReportsOf(messageId) == SelectSeq(reports, LAMBDA r : r.messageId = messageId)

\* the visited executor does nothing but forward: its body is solely
\* p.then(resolve, reject) with both parameters passed straight through, or
\* solely resolve(x) with one argument
OnlyForwards ==
  LET w == visited.written IN
  /\ Len(w.body) = 1
  /\ \/ /\ w.body[1].kind = "then"
        /\ Len(w.params) = 2
        /\ w.body[1].args = <<Identifier(w.params[1]), Identifier(w.params[2])>>
     \/ /\ w.body[1].kind = "call"
        /\ Len(w.params) >= 1
        /\ w.body[1].fn = w.params[1]
        /\ Len(w.body[1].args) = 1

\* C24: redundant-new-promise-wrapper reports a new Promise(executor) only
\* when the executor does nothing but forward; an executor that contains
\* any other statement, or that passes only one of its completion callables
\* straight through to then, is not reported and gets no fix.
C24_ReportedOnlyWhenForwarding ==
  (visited.type = "NewExpression" /\ ReportsOf("redundantWrapper") # <<>>) =>
    OnlyForwards


\* C25: reaction-returns-promise reports return Promise.resolve(..) or
\* return Promise.reject(..) only when the nearest enclosing function of the
\* return statement is itself a callback passed to then, catch or finally;
\* a return inside another function nested within such a callback is not
\* reported.
C25_ReportedOnlyInReactionItself ==
  (visited.type = "ReturnStatement"
     /\ ReportsOf("noReturnPromiseInReaction") # <<>>) =>
    /\ func(visited.ancestors) # 0
    /\ reaction(visited.ancestors) = func(visited.ancestors)


\* the names an executor's statement mentions as identifiers
NamesIn(d) ==
  {d.args[i].name : i \in 1..Len(d.args)} \cup {d.fn, d.object.name}

\* the parameters of the visited executor that its body uses
CallablesUsed ==
  LET w == visited.written IN
  {n \in {w.params[i] : i \in 1..Len(w.params)} :
     \E k \in 1..Len(w.body) : n \in NamesIn(w.body[k])}

\* C26: executor-one-arg-used reports a new Promise(executor) exactly when
\* the executor uses precisely one of its two completion callables in its
\* body; an executor that uses both is never reported.
C26_ReportedIffOneCallableUsed ==
  (visited.type = "NewExpression" /\ visited.written.callee = "Promise"
     /\ visited.written.form \in {"arrow", "function"}) =>
    (ReportsOf("oneArgExecutor") # <<>>) = (Cardinality(CallablesUsed) = 1)


\* C21: whenever replaceFunctionInFile overwrites the source file, the
\* backup file holds, after the step, exactly the content the source file
\* had before it, also when writing the backup fails.
C21_BackupHoldsPreviousContent ==
  [][fileWrites' # fileWrites => backupFile' = targetFile]_vars

Applied(r) ==
  requests[r].pc = "done" /\ requests[r].apply /\ requests[r].status = 200

\* the text request r's function was to be replaced by, if r was applied
\* to function f
FixedTextFor(f) ==
  LET r == CHOOSE q \in Requesters : requests[q].target = f
  IN requests[r].fixedFunction

\* the original file with each of the two functions replaced by its own
\* fixed text and every other line kept
BothFixed ==
  LET f1 == Functions[1]
      f2 == Functions[2]
  IN SubSeq(OriginalLines, 1, f1.funcStart - 1)
       \o FixedTextFor(1)
       \o SubSeq(OriginalLines, f1.funcStart + Len(f1.funcSnippet), f2.funcStart - 1)
       \o FixedTextFor(2)
       \o SubSeq(OriginalLines, f2.funcStart + Len(f2.funcSnippet), Len(OriginalLines))

\* C29: once two fix-apply requests for different functions of the file,
\* both built from the same report, have been applied (in either order),
\* the file is the original with each target function replaced by its own
\* fixed text and all other lines unchanged.
C29_TwoFixesTouchOnlyTheirFunctions ==
  (Applied(1) /\ Applied(2) /\ requests[1].target # requests[2].target)
    => targetFile.lines = BothFixed

=============================================================================
